---- MODULE Spec2Model ----
(***************************************************************************)
(* Takumi Smart Resolver v2.0 (src/scripts/smart_resolver.py): the         *)
(* dependency resolution agent.  Strings are sequences of one-character    *)
(* strings, so that name extraction and normalisation are computed the way *)
(* the code computes them.  Python's None and an empty list are both the   *)
(* empty sequence: the code only ever tests them for truthiness.           *)
(***************************************************************************)
EXTENDS Integers, Sequences, FiniteSets, TLC

\* ------------------------------------------------------------------ bounds

\* Deepest nesting of OllamaClient.query calls the interpreter allows, and
\* the length of the server's script of answers.
MaxDepth == 3

\* Most OllamaClient.query calls in progress on the server's event loop.
MaxQueries == 2

\* Longest requirement list given to the arbiter on its own.
MaxReqs == 3
\* Longest conflict matrix.
MaxRules == 2
\* Most component directories under the component root.
MaxNodes == 2
\* Most directories below the root in a tree scanned on its own.
MaxDirs == 3

\* ------------------------------------------------------------- Utils (33-44)

UpperChars == <<"A","B","C","D","E","F","G","H","I","J","K","L","M",
                "N","O","P","Q","R","S","T","U","V","W","X","Y","Z">>
LowerChars == <<"a","b","c","d","e","f","g","h","i","j","k","l","m",
                "n","o","p","q","r","s","t","u","v","w","x","y","z">>

\* str.lower() on one character.
UpperToLower ==
    [c \in {UpperChars[i] : i \in DOMAIN UpperChars} |->
        LowerChars[CHOOSE i \in DOMAIN UpperChars : UpperChars[i] = c]]
lower_char(c) == IF c \in DOMAIN UpperToLower THEN UpperToLower[c] ELSE c

\* The characters str.strip() removes: the ASCII characters for which
\* str.isspace() holds, that is space, tab, line feed, carriage return, form
\* feed, vertical tab (0x0b) and the four separators 0x1c to 0x1f.
Whitespace == {" ", "\t", "\n", "\r", "\f", "", "", "", "", ""}

RECURSIVE lstrip(_)
lstrip(s) ==
    IF s = <<>> THEN <<>>
    ELSE IF Head(s) \in Whitespace THEN lstrip(Tail(s)) ELSE s

RECURSIVE rstrip(_)
rstrip(s) ==
    IF s = <<>> THEN <<>>
    ELSE IF s[Len(s)] \in Whitespace THEN rstrip(SubSeq(s, 1, Len(s) - 1)) ELSE s

\* str.strip()
strip(s) == rstrip(lstrip(s))

\* str.startswith(prefix) for a one-character prefix.
startswith(s, c) == Len(s) > 0 /\ s[1] = c

\* Utils.normalize_name: name.strip().lower().replace("-", "_")
normalize_name(name) ==
    LET t == strip(name)
    IN  [i \in DOMAIN t |-> IF lower_char(t[i]) = "-" THEN "_" ELSE lower_char(t[i])]

\* The character class of re.split(r'[<>=!\[;]', ...).
SplitChars == {"<", ">", "=", "!", "[", ";"}

\* parts[0] of re.split: the text before the first character of the class.
first_part(s) ==
    IF \E i \in DOMAIN s : s[i] \in SplitChars
    THEN SubSeq(s, 1, (CHOOSE i \in DOMAIN s :
                          /\ s[i] \in SplitChars
                          /\ \A j \in 1..(i - 1) : s[j] \notin SplitChars) - 1)
    ELSE s

\* Utils.get_package_name
get_package_name(req_string) == normalize_name(first_part(strip(req_string)))

\* dict.get(key, default) on a record or function.
Get(d, key, default) == IF key \in DOMAIN d THEN d[key] ELSE default

\* ------------------------------------------- apply_conflict_matrix (207-246)

\* req_map = {Utils.get_package_name(r): r for r in requirements}: a later
\* requirement of the same name replaces an earlier one.
req_map(requirements) ==
    [n \in {get_package_name(requirements[i]) : i \in DOMAIN requirements} |->
        requirements[CHOOSE i \in DOMAIN requirements :
            /\ get_package_name(requirements[i]) = n
            /\ \A j \in DOMAIN requirements :
                   get_package_name(requirements[j]) = n => j <= i]]

\* A ban loop that never bans a fired rule's own triggers.
RECURSIVE ban_loop_spare_triggers(_, _, _, _)
ban_loop_spare_triggers(conflict_matrix, i, active_packages, ban_list) ==
    IF i > Len(conflict_matrix) THEN ban_list
    ELSE LET rule     == conflict_matrix[i]
             triggers == Get(rule, "trigger", {})
             bans     == Get(rule, "ban", {})
         IN  ban_loop_spare_triggers(conflict_matrix, i + 1, active_packages,
                      IF triggers \cap active_packages # {}
                      THEN ban_list \cup (bans \ triggers)
                      ELSE ban_list)

\* A cascading loop: a package banned by an earlier rule no longer counts as
\* active for the rules after it.
RECURSIVE ban_loop_cascading(_, _, _, _)
ban_loop_cascading(conflict_matrix, i, active_packages, ban_list) ==
    IF i > Len(conflict_matrix) THEN ban_list
    ELSE LET rule     == conflict_matrix[i]
             triggers == Get(rule, "trigger", {})
             bans     == Get(rule, "ban", {})
         IN  ban_loop_cascading(conflict_matrix, i + 1, active_packages,
                      IF triggers \cap (active_packages \ ban_list) # {}
                      THEN ban_list \cup bans
                      ELSE ban_list)

\* The loop of lines 224-233: the bans of every rule whose triggers meet
\* active_packages, accumulated in matrix order.
RECURSIVE ban_loop(_, _, _, _)
ban_loop(conflict_matrix, i, active_packages, ban_list) ==
    IF i > Len(conflict_matrix) THEN ban_list
    ELSE LET rule     == conflict_matrix[i]
             triggers == Get(rule, "trigger", {})
             bans     == Get(rule, "ban", {})
         IN  ban_loop(conflict_matrix, i + 1, active_packages,
                      IF triggers \cap active_packages # {}
                      THEN ban_list \cup bans
                      ELSE ban_list)

\* A purge that drops only the requirement req_map holds for a banned name.
RECURSIVE purge_loop_by_map(_, _, _, _)
purge_loop_by_map(requirements, i, ban_list, final_reqs) ==
    IF i > Len(requirements) THEN final_reqs
    ELSE purge_loop_by_map(requirements, i + 1, ban_list,
             IF /\ get_package_name(requirements[i]) \in ban_list
                /\ requirements[i] = req_map(requirements)[get_package_name(requirements[i])]
             THEN final_reqs
             ELSE Append(final_reqs, requirements[i]))

\* A purge that also keeps only one requirement per package name, the one
\* req_map holds.
RECURSIVE purge_loop_dedup(_, _, _, _)
purge_loop_dedup(requirements, i, ban_list, final_reqs) ==
    IF i > Len(requirements) THEN final_reqs
    ELSE purge_loop_dedup(requirements, i + 1, ban_list,
             IF \/ get_package_name(requirements[i]) \in ban_list
                \/ requirements[i] # req_map(requirements)[get_package_name(requirements[i])]
             THEN final_reqs
             ELSE Append(final_reqs, requirements[i]))

\* The loop of lines 236-244.
RECURSIVE purge_loop(_, _, _, _)
purge_loop(requirements, i, ban_list, final_reqs) ==
    IF i > Len(requirements) THEN final_reqs
    ELSE purge_loop(requirements, i + 1, ban_list,
                    IF get_package_name(requirements[i]) \in ban_list
                    THEN final_reqs
                    ELSE Append(final_reqs, requirements[i]))

apply_conflict_matrix(requirements, conflict_matrix) ==
    IF conflict_matrix = <<>> THEN requirements
    ELSE LET active_packages == DOMAIN req_map(requirements)
             ban_list        == ban_loop(conflict_matrix, 1, active_packages, {})
         IN  purge_loop(requirements, 1, ban_list, <<>>)


\* ------------------------------------------------------------ input strings

\* Package names as a knowledge base writes them.
N_torch      == <<"t","o","r","c","h">>
N_tensorflow == <<"t","e","n","s","o","r","f","l","o","w">>
N_numpy      == <<"n","u","m","p","y">>
N_xformers   == <<"x","f","o","r","m","e","r","s">>
N_Torch      == <<"T","o","r","c","h">>

\* Requirement strings as a component declares them.
R_torch      == <<"t","o","r","c","h","=","=","2",".","0">>
R_tensorflow == <<"t","e","n","s","o","r","f","l","o","w","=","=","2",".","1","0">>
R_numpy      == <<"n","u","m","p","y">>
R_numpy119   == <<"n","u","m","p","y","=","=","1",".","1","9",".","0">>
R_numpy126   == <<"n","u","m","p","y","=","=","1",".","2","6",".","4">>
R_xformers20 == <<"x","f","o","r","m","e","r","s","=","=","0",".","0",".","2","0">>
R_tf_compat  == <<"t","e","n","s","o","r","f","l","o","w","~","=","2",".","1","0">>
R_numpy_compat == <<"n","u","m","p","y","~","=","1",".","1","9">>
R_xformers23 == <<"x","f","o","r","m","e","r","s","=","=","0",".","0",".","2","3">>

\* Lines of a declaration file that are not requirements.
L_comment == <<"#"," ","p","i","n","n","e","d">>
L_blank   == <<" "," ">>
L_indented_comment == <<" "," ","#"," ","n","o","t","e">>

\* Sequences over S of length at most n, and those without repetition.
SeqsUpTo(S, n) == UNION {[1..k -> S] : k \in 0..n}
InjSeqsUpTo(S, n) ==
    {s \in SeqsUpTo(S, n) : \A i, j \in DOMAIN s : i # j => s[i] # s[j]}

\* Conflict rules (a rule is a JSON object; "trigger" and "ban" are read with
\* rule.get(key, []) and turned into sets).
Rule_torch_bans_tf   == [trigger |-> {N_torch}, ban |-> {N_tensorflow}]
Rule_tf_bans_numpy   == [trigger |-> {N_tensorflow}, ban |-> {N_numpy}]
Rule_self_ban        == [trigger |-> {N_numpy, N_xformers}, ban |-> {N_xformers}]
Rule_no_trigger      == [ban |-> {N_numpy}]

\* Rules a session's conflict matrix is drawn from, and the wider set the
\* arbiter is exercised with on its own.
SessionRules == {Rule_torch_bans_tf, Rule_tf_bans_numpy, Rule_self_ban}
ArbiterRules == SessionRules \cup {Rule_no_trigger}

ArbiterPool == {R_torch, R_tensorflow, R_tf_compat, R_numpy, R_xformers20, R_xformers23}
OrderPool == {R_torch, R_tensorflow, R_numpy, R_xformers20}


\* --------------------------------------------------- the scanned directory

\* os.walk(CUSTOM_NODES_PATH) yields one entry per directory of the tree, top
\* down and the root itself first: its path below the root, the basename of
\* that path, and its files.  A file that cannot be read or decoded has
\* readable = FALSE.
REQUIREMENTS_TXT == "requirements.txt"
EXTRA_TXT        == "requirements-extra.txt"
DEV_TXT          == "requirements-dev.txt"

File(lines) == [readable |-> TRUE, lines |-> lines]
\* A file whose open() or decoding raises; lines are those before the fault.
Unreadable(lines) == [readable |-> FALSE, lines |-> lines]

\* Directory names.
ROOT_NAME == <<"c","u","s","t","o","m","_","n","o","d","e","s">>
NodeA     == <<"N","o","d","e","A">>
NodeB     == <<"N","o","d","e","B">>
NodeT     == <<"N","o","d","e","T">>
NodeN     == <<"N","o","d","e","N">>
NodeC     == <<"N","o","d","e","C">>
NodeE     == <<"N","o","d","e","E">>
NodeU     == <<"N","o","d","e","U">>
NodeI     == <<"N","o","d","e","I">>
DotGit    == <<".","g","i","t">>
Hooks     == <<"h","o","o","k","s">>
Sub       == <<"s","r","c">>

\* os.path.basename(root) for the directory at a path below the root.
basename(path) == IF path = <<>> THEN ROOT_NAME ELSE path[Len(path)]

Dir(path, files) == [name |-> basename(path), path |-> path, files |-> files]

D_root   == Dir(<<>>, <<>>)
D_NodeA  == Dir(<<NodeA>>, (REQUIREMENTS_TXT :> File(<<R_xformers20>>))
                           @@ (EXTRA_TXT :> File(<<R_torch>>)))
D_NodeB  == Dir(<<NodeB>>, (REQUIREMENTS_TXT :> File(<<R_xformers23, R_numpy>>)))
D_NodeT  == Dir(<<NodeT>>, (REQUIREMENTS_TXT :>
                              File(<<L_comment, R_torch, L_blank, R_tensorflow>>)))
D_NodeN  == Dir(<<NodeN>>, (REQUIREMENTS_TXT :> File(<<R_numpy119, R_numpy_compat>>)))
D_hidden == Dir(<<DotGit>>, (REQUIREMENTS_TXT :> File(<<R_tensorflow>>)))

NodeDirs == {D_NodeA, D_NodeB, D_NodeT, D_NodeN, D_hidden}

\* The component root: absent, or the root entry followed by its directories.
FsChoices ==
    {[exists |-> FALSE, walk |-> <<>>]} \cup
    {[exists |-> TRUE, walk |-> <<D_root>> \o w] : w \in InjSeqsUpTo(NodeDirs, MaxNodes)}

\* Trees for the scan on its own: a root that holds a declaration file itself,
\* components without requirements (no file, a file of comments and blanks, a
\* file of one indented comment), and directories below a component or below
\* a hidden directory.
D_root_reqs     == Dir(<<>>, (REQUIREMENTS_TXT :> File(<<R_numpy>>)))
D_NodeC         == Dir(<<NodeC>>, (REQUIREMENTS_TXT :> File(<<L_comment, L_blank>>)))
D_NodeE         == Dir(<<NodeE>>, <<>>)
D_NodeI         == Dir(<<NodeI>>, (REQUIREMENTS_TXT :> File(<<L_indented_comment>>)))
D_NodeU         == Dir(<<NodeU>>, (REQUIREMENTS_TXT :> Unreadable(<<R_torch>>))
                                  @@ (EXTRA_TXT :> File(<<R_xformers20>>))
                                  @@ (DEV_TXT :> File(<<R_tensorflow>>)))
D_NodeA_Sub     == Dir(<<NodeA, Sub>>, (REQUIREMENTS_TXT :> File(<<R_numpy126>>)))
D_NodeB_NodeA   == Dir(<<NodeB, NodeA>>, (REQUIREMENTS_TXT :> File(<<R_torch>>)))
D_hidden_Hooks  == Dir(<<DotGit, Hooks>>, (REQUIREMENTS_TXT :> File(<<R_tf_compat>>)))

ScanDirs == {D_NodeA, D_NodeB, D_hidden, D_NodeC, D_NodeE, D_NodeI, D_NodeU,
             D_NodeA_Sub, D_NodeB_NodeA, D_hidden_Hooks}

\* path is below the directory at parent.
Below(path, parent) ==
    Len(path) > Len(parent) /\ SubSeq(path, 1, Len(parent)) = parent

\* os.walk lists a directory after its parent, with nothing but the parent's
\* other descendants in between; the order of siblings is the file system's.
TopDown(w) ==
    \A i \in DOMAIN w :
        Len(w[i].path) > 1 =>
            \E k \in 1..(i - 1) :
                /\ w[k].path = SubSeq(w[i].path, 1, Len(w[i].path) - 1)
                /\ \A j \in (k + 1)..(i - 1) : Below(w[j].path, w[k].path)

ScanFsChoices ==
    {[exists |-> FALSE, walk |-> <<>>]} \cup
    {[exists |-> TRUE, walk |-> <<r>> \o w] :
        r \in {D_root, D_root_reqs},
        w \in {v \in InjSeqsUpTo(ScanDirs, MaxDirs) : TopDown(v)}}

\* ------------------------------------------------ the knowledge-base file

\* "strategies" sections.
Strat_none     == <<>>
Strat_disabled == [dictator_mode |->
                     [enabled |-> FALSE, override_packages |-> <<N_numpy>>,
                      modern_constraints |-> <<R_numpy126>>]]
Strat_override == [dictator_mode |->
                     [enabled |-> TRUE, override_packages |-> <<N_numpy>>,
                      modern_constraints |-> <<R_numpy126>>]]
Strat_pins     == [dictator_mode |->
                     [enabled |-> TRUE,
                      modern_constraints |-> <<R_tensorflow, R_numpy>>]]
Strat_drop     == [dictator_mode |->
                     [enabled |-> TRUE, override_packages |-> <<N_Torch>>]]

StrategyChoices == {Strat_none, Strat_disabled, Strat_override, Strat_pins, Strat_drop}

\* "node_specific_rules" sections.
NodeRules_none  == <<>>
NodeRules_NodeA == (NodeA :>
                      [extra_files |-> <<EXTRA_TXT>>, inject |-> <<R_numpy>>])

NodeRuleChoices == {NodeRules_none, NodeRules_NodeA}

\* Rules for the scan on its own: extra files listed in an order of their
\* own, an extra file the component does not have, and an injection for a
\* component without files.
NodeRules_scan ==
    (NodeA :> [extra_files |-> <<EXTRA_TXT>>, inject |-> <<R_numpy>>])
    @@ (NodeB :> [extra_files |-> <<EXTRA_TXT>>])
    @@ (NodeE :> [inject |-> <<R_torch>>])
    @@ (NodeU :> [extra_files |-> <<DEV_TXT, EXTRA_TXT>>, inject |-> <<R_numpy>>])

EmptyData == [node_specific_rules |-> <<>>, strategies |-> <<>>, conflict_matrix |-> <<>>]

\* The file at RULES_PATH.  exists: os.path.exists; valid: json.load returns;
\* object: the top-level JSON value is an object; data: that object;
\* mistyped: the sections of data whose value is a JSON number (5) instead
\* of the object or array the program expects (data holds <<>> in their place).
KbFile(exists, valid, object, data, mistyped) ==
    [exists |-> exists, valid |-> valid, object |-> object, data |-> data,
     mistyped |-> mistyped]

KbAbsent    == KbFile(FALSE, FALSE, FALSE, EmptyData, {})
KbNotJson   == KbFile(TRUE, FALSE, FALSE, EmptyData, {})
KbNotObject == KbFile(TRUE, TRUE, FALSE, EmptyData, {})

\* The file at RULES_PATH: absent, not JSON, or a JSON object of the
\* expected shape.
KbChoices ==
    {KbAbsent, KbNotJson} \cup
    {KbFile(TRUE, TRUE, TRUE,
            [node_specific_rules |-> n, strategies |-> s, conflict_matrix |-> m], {}) :
        n \in NodeRuleChoices, s \in StrategyChoices,
        m \in InjSeqsUpTo(SessionRules, MaxRules)}

\* The sections of a knowledge base, and files of an unexpected shape: not
\* JSON, not an object, or an object in which the sections of a non-empty set
\* hold the number 5.
KbSections == {"node_specific_rules", "strategies", "conflict_matrix"}

MistypedKb(mistyped, n, s, m) ==
    KbFile(TRUE, TRUE, TRUE,
           [node_specific_rules |-> IF "node_specific_rules" \in mistyped THEN <<>> ELSE n,
            strategies          |-> IF "strategies" \in mistyped THEN <<>> ELSE s,
            conflict_matrix     |-> IF "conflict_matrix" \in mistyped THEN <<>> ELSE m],
           mistyped)

KbShapeChoices ==
    {KbAbsent, KbNotJson, KbNotObject} \cup
    {MistypedKb(mistyped, n, s, m) :
        mistyped \in (SUBSET KbSections) \ {{}},
        n \in NodeRuleChoices, s \in {Strat_none, Strat_override},
        m \in {<<>>, <<Rule_torch_bans_tf>>}}

\* The component roots those files are tried with.
KbFsChoices ==
    {[exists |-> FALSE, walk |-> <<>>],
     [exists |-> TRUE, walk |-> <<D_root>>],
     [exists |-> TRUE, walk |-> <<D_root, D_NodeA>>],
     [exists |-> TRUE, walk |-> <<D_root, D_NodeT>>]}

\* Names a knowledge base writes in another case or with '-', requirements
\* they are meant to match, and rules and a fallback strategy that use them.
N_opencv_python == <<"o","p","e","n","c","v","-","p","y","t","h","o","n">>
N_Some_Package  == <<"S","o","m","e","-","P","a","c","k","a","g","e">>
R_opencv_python == <<"o","p","e","n","c","v","-","p","y","t","h","o","n","=","=","4",".","8">>
R_some_package  == <<"s","o","m","e","_","p","a","c","k","a","g","e","=","=","1">>

Rule_dash_ban     == [trigger |-> {N_numpy}, ban |-> {N_opencv_python}]
Rule_case_trigger == [trigger |-> {N_Torch}, ban |-> {N_numpy}]
NameRules == {Rule_dash_ban, Rule_case_trigger, Rule_torch_bans_tf}

Strat_dash_override == [dictator_mode |->
                          [enabled |-> TRUE, override_packages |-> <<N_Some_Package>>]]

D_NodeM == Dir(<<<<"N","o","d","e","M">>>>,
               (REQUIREMENTS_TXT :>
                  File(<<R_opencv_python, R_torch, R_some_package, R_numpy>>)))

NamesFsChoices ==
    {[exists |-> TRUE, walk |-> <<D_root>> \o w] : w \in InjSeqsUpTo({D_NodeM, D_NodeT}, 2)}

NamesKbChoices ==
    {KbFile(TRUE, TRUE, TRUE,
            [node_specific_rules |-> <<>>, strategies |-> s, conflict_matrix |-> m], {}) :
        s \in {Strat_none, Strat_dash_override, Strat_override},
        m \in InjSeqsUpTo(NameRules, MaxRules)}

\* Sessions whose names are all canonical and whose requirements use only
\* the operators get_package_name splits at: a rule triggered by a package
\* that the fallback overrides and pins.
Rule_numpy_bans_torch == [trigger |-> {N_numpy}, ban |-> {N_torch}]
PhaseRules == {Rule_numpy_bans_torch, Rule_torch_bans_tf, Rule_tf_bans_numpy}

PhaseFsChoices ==
    {[exists |-> TRUE, walk |-> <<D_root>> \o w] :
        w \in InjSeqsUpTo({D_NodeA, D_NodeB, D_NodeT}, MaxNodes)}

PhaseKbChoices ==
    {KbFile(TRUE, TRUE, TRUE,
            [node_specific_rules |-> <<>>, strategies |-> s, conflict_matrix |-> m], {}) :
        s \in {Strat_none, Strat_override, Strat_pins},
        m \in InjSeqsUpTo(PhaseRules, MaxRules)}

\* Trees for the v1 resolver.
V1Dirs == {D_NodeA, D_NodeB, D_hidden, D_NodeA_Sub, D_NodeE}
V1FsChoices ==
    {[exists |-> FALSE, walk |-> <<>>]} \cup
    {[exists |-> TRUE, walk |-> <<r>> \o w] :
        r \in {D_root, D_root_reqs},
        w \in {v \in InjSeqsUpTo(V1Dirs, MaxDirs) : TopDown(v)}}

\* Raw lines for the parser on its own: a package name, optional whitespace,
\* and what may follow a name in a requirement.
ParserNames == {<<"p","k","g">>, <<"P","k","g">>, <<"s","o","m","e","-","p","a","c","k","a","g","e">>, <<"S","o","m","e","_","P","a","c","k","a","g","e">>}
ParserGaps  == {<<>>, <<" ">>, <<"">>}
ParserSuffixes == {<<"=","=","1",".","0">>, <<">","=","1",".","0">>, <<"<","=","1",".","0">>, <<"!","=","1",".","0">>, <<"~","=","1",".","0">>, <<"[","e","x","t","r","a","]",">","=","1",".","0">>, <<";"," ","p","y","t","h","o","n","_","v","e","r","s","i","o","n","<","3",".","1","1">>}
ParserLines ==
    {n \o g \o x : n \in ParserNames, g \in ParserGaps, x \in ParserSuffixes}


\* ------------------------------------------------------------------ state

VARIABLES
    fs,               \* the component root on disk
    kbfile,           \* the knowledge-base file on disk
    receiver,         \* the object each step of the driver calls its method on
    agents,           \* the DependencyAgent objects constructed
    pc,               \* the driver's position
    temp_req,         \* /tmp/req_<session id>.txt, by session id: its text
    installer_calls,  \* completed installer runs: session, strategy, input, exit status
    telemetry,        \* the records handed to Telemetry.send
    recipes,          \* the files export_recipe has created
    exit_code,        \* the process's exit status once it has ended
    output,           \* what the process has printed: phase lines and tracebacks
    environment,      \* the requirements installed in the Python environment
    arb_requirements, \* arbiter on its own: the requirement list
    arb_matrix,       \* arbiter on its own: the conflict matrix
    arb_passes,       \* arbiter on its own: the output of each pass so far
    req_string,       \* parser on its own: the argument of get_package_name
    pkg_name,         \* parser on its own: the values it has returned
    req_files,        \* v1 resolver: what get_all_requirements returned
    popen_calls,      \* v1 resolver: the files the installer was started on
    results,          \* v1 resolver: the entries install_and_record returned
    success_count,    \* v1 resolver: its second return value
    fail_count,       \* v1 resolver: its third return value
    client,           \* model query: the client that sends it
    server_script,    \* model query: what the server and "ollama pull" will answer
    queries           \* model queries: where each is, what it sent and returned

vars == <<fs, kbfile, receiver, agents, pc, temp_req, installer_calls, telemetry,
          recipes, exit_code, output, environment, arb_requirements, arb_matrix,
          arb_passes, req_string, pkg_name, req_files, popen_calls, results,
          success_count, fail_count, client, server_script, queries>>

session_vars == <<fs, kbfile, receiver, agents, pc, temp_req, installer_calls,
                  telemetry, recipes, exit_code, output, environment>>
arb_vars == <<arb_requirements, arb_matrix, arb_passes>>
parser_vars == <<req_string, pkg_name>>
resolver_vars == <<req_files, popen_calls, results, success_count, fail_count>>
query_vars == <<client, server_script, queries>>

\* ------------------------------------------------- KnowledgeBase (71-89)

\* KnowledgeBase.__init__ and _load: the three collections stay empty unless
\* the file exists, parses and is an object (data.get raises on anything else,
\* inside the try).  A section is stored as it is read, whatever its type:
\* mistyped names the attributes that hold a number.
KnowledgeBase(file) ==
    IF file.exists /\ file.valid /\ file.object
    THEN [node_rules      |-> Get(file.data, "node_specific_rules", <<>>),
          strategies      |-> Get(file.data, "strategies", <<>>),
          conflict_matrix |-> Get(file.data, "conflict_matrix", <<>>),
          mistyped        |-> file.mistyped]
    ELSE [node_rules |-> <<>>, strategies |-> <<>>, conflict_matrix |-> <<>>,
          mistyped |-> {}]

\* DependencyAgent.__init__ (91-98); uuid4 gives every object its own id.
DependencyAgent(id, file) ==
    [session_id     |-> id,
     kb             |-> KnowledgeBase(file),
     input_manifest |-> <<>>,
     trials         |-> <<>>,
     status         |-> "pending"]

\* ------------------------------------------- scan_environment (100-138)

\* input_manifest is a dict: an ordered list of (key, value) items; assigning
\* an existing key replaces its value in place.
dict_set(d, key, value) ==
    IF \E i \in DOMAIN d : d[i].key = key
    THEN [i \in DOMAIN d |-> IF d[i].key = key THEN [key |-> key, value |-> value] ELSE d[i]]
    ELSE Append(d, [key |-> key, value |-> value])

\* deps = [line.strip() for line in f if line.strip() and not line.startswith('#')]
RECURSIVE read_deps(_, _, _)
read_deps(lines, i, deps) ==
    IF i > Len(lines) THEN deps
    ELSE read_deps(lines, i + 1,
                   IF strip(lines[i]) # <<>> /\ ~startswith(lines[i], "#")
                   THEN Append(deps, strip(lines[i]))
                   ELSE deps)

\* A file scan that reads target_files from the last to the first.
RECURSIVE file_scan_reversed(_, _, _, _)
file_scan_reversed(target_files, i, files, node_deps) ==
    IF i > Len(target_files) THEN node_deps
    ELSE LET filename == target_files[Len(target_files) - i + 1]
         IN  file_scan_reversed(target_files, i + 1, files,
                 IF filename \in DOMAIN files /\ files[filename].readable
                 THEN node_deps \o read_deps(files[filename].lines, 1, <<>>)
                 ELSE node_deps)

\* A file scan that keeps the lines read before a file's fault.
RECURSIVE file_scan_partial(_, _, _, _)
file_scan_partial(target_files, i, files, node_deps) ==
    IF i > Len(target_files) THEN node_deps
    ELSE LET filename == target_files[i]
         IN  file_scan_partial(target_files, i + 1, files,
                 IF filename \in DOMAIN files
                 THEN node_deps \o read_deps(files[filename].lines, 1, <<>>)
                 ELSE node_deps)

\* The loop of lines 125-133 over target_files.
RECURSIVE file_scan(_, _, _, _)
file_scan(target_files, i, files, node_deps) ==
    IF i > Len(target_files) THEN node_deps
    ELSE LET filename == target_files[i]
         IN  file_scan(target_files, i + 1, files,
                 IF filename \in DOMAIN files /\ files[filename].readable
                 THEN node_deps \o read_deps(files[filename].lines, 1, <<>>)
                 ELSE node_deps)

\* The body of the os.walk loop (108-136) for one directory.
scan_node(entry, node_rules, input_manifest) ==
    LET node_name == entry.name
        has_rule  == node_name \in DOMAIN node_rules /\ DOMAIN node_rules[node_name] # {}
        rule      == IF has_rule THEN node_rules[node_name] ELSE <<>>
        target_files == <<REQUIREMENTS_TXT>> \o Get(rule, "extra_files", <<>>)
        injected  == Get(rule, "inject", <<>>)
        node_deps == file_scan(target_files, 1, entry.files, injected)
    IN  IF startswith(node_name, ".") THEN input_manifest
        ELSE IF node_deps # <<>> THEN dict_set(input_manifest, node_name, node_deps)
        ELSE input_manifest

RECURSIVE walk_loop(_, _, _, _)
walk_loop(walk, i, node_rules, input_manifest) ==
    IF i > Len(walk) THEN input_manifest
    ELSE walk_loop(walk, i + 1, node_rules,
                   scan_node(walk[i], node_rules, input_manifest))

scan_environment(dir, node_rules, input_manifest) ==
    IF ~dir.exists THEN input_manifest
    ELSE walk_loop(dir.walk, 1, node_rules, input_manifest)

\* ------------------------------------------- execute_strategy (140-205)

\* An override test on the requirement string instead of its package name.
RECURSIVE merge_deps_raw(_, _, _, _, _)
merge_deps_raw(deps, i, override_packages, normalized_overrides, final_reqs) ==
    IF i > Len(deps) THEN final_reqs
    ELSE merge_deps_raw(deps, i + 1, override_packages, normalized_overrides,
                    IF /\ override_packages # <<>>
                       /\ deps[i] \in normalized_overrides
                    THEN final_reqs
                    ELSE Append(final_reqs, deps[i]))

\* The loop of lines 156-162 over one component's requirements.
RECURSIVE merge_deps(_, _, _, _, _)
merge_deps(deps, i, override_packages, normalized_overrides, final_reqs) ==
    IF i > Len(deps) THEN final_reqs
    ELSE merge_deps(deps, i + 1, override_packages, normalized_overrides,
                    IF /\ override_packages # <<>>
                       /\ get_package_name(deps[i]) \in normalized_overrides
                    THEN final_reqs
                    ELSE Append(final_reqs, deps[i]))

\* for deps in self.input_manifest.values()
RECURSIVE merge_manifest(_, _, _, _, _)
merge_manifest(input_manifest, i, override_packages, normalized_overrides, final_reqs) ==
    IF i > Len(input_manifest) THEN final_reqs
    ELSE merge_manifest(input_manifest, i + 1, override_packages, normalized_overrides,
                        merge_deps(input_manifest[i].value, 1, override_packages,
                                   normalized_overrides, final_reqs))

\* A build that adds the constraints before the conflict matrix is applied.
build_final_reqs_constraints_first(input_manifest, conflict_matrix, constraints, override_packages) ==
    LET normalized_overrides ==
            IF override_packages # <<>>
            THEN {normalize_name(override_packages[i]) : i \in DOMAIN override_packages}
            ELSE {}
        merged == merge_manifest(input_manifest, 1, override_packages,
                                 normalized_overrides, <<>>)
    IN  apply_conflict_matrix(IF constraints # <<>> THEN merged \o constraints ELSE merged,
                              conflict_matrix)

\* A build that applies the conflict matrix to the whole manifest and removes
\* the overridden packages afterwards.
build_final_reqs_arbitrate_first(input_manifest, conflict_matrix, constraints, override_packages) ==
    LET normalized_overrides ==
            IF override_packages # <<>>
            THEN {normalize_name(override_packages[i]) : i \in DOMAIN override_packages}
            ELSE {}
        merged == merge_manifest(input_manifest, 1, <<>>, {}, <<>>)
        purged == merge_deps(apply_conflict_matrix(merged, conflict_matrix), 1,
                             override_packages, normalized_overrides, <<>>)
    IN  IF constraints # <<>> THEN purged \o constraints ELSE purged

\* Lines 147-170: the list written to the requirement file.
build_final_reqs(input_manifest, conflict_matrix, constraints, override_packages) ==
    LET normalized_overrides ==
            IF override_packages # <<>>
            THEN {normalize_name(override_packages[i]) : i \in DOMAIN override_packages}
            ELSE {}
        merged == merge_manifest(input_manifest, 1, override_packages,
                                 normalized_overrides, <<>>)
        purged == apply_conflict_matrix(merged, conflict_matrix)
    IN  IF constraints # <<>> THEN purged \o constraints ELSE purged

\* "\n".join(final_reqs)
RECURSIVE join_lines(_)
join_lines(lines) ==
    IF lines = <<>> THEN <<>>
    ELSE IF Len(lines) = 1 THEN lines[1]
    ELSE lines[1] \o <<"\n">> \o join_lines(Tail(lines))

\* Outcomes of writing the requirement file (it is written; open() raises
\* and no file is touched; open() creates or truncates the file and write or
\* close raises, leaving it empty) and of subprocess.run (the installer runs
\* and its output is returned; the installer cannot be started; the installer
\* runs and exits, and decoding what it printed, which text=True asks for,
\* raises).
WriteOutcomes == {"written", "oserror", "write_oserror"}
LaunchOutcomes == {"ran", "oserror", "undecodable"}
\* Exit statuses of an installer run.
ReturnCodes == {0, 1}


\* Whether the requirement file was written and the installer ran.
Completed(w, l) == w = "written" /\ l # "oserror"

\* The lines the process prints that mark its phases (lines 102, 275, 142,
\* 169, 195, 198, 285, 50, 67, 69, 250, 272, 307, 310), without their
\* decoration and arguments.
P_scanning       == "Scanning custom nodes..."
P_battle         == "Starting Battle Phase..."
P_naive          == "Executing Strategy: naive_merge"
P_dictator       == "Executing Strategy: dictator_mode"
P_constraints    == "Applying constraints"
P_success        == "Success!"
P_failed         == "Failed."
P_activating     == "Activating Dictator Mode (Loaded from KB)"
P_uploading      == "Uploading session data..."
P_upload_success == "Upload success."
P_upload_failed  == "Upload failed"
P_freezing       == "Freezing successful environment..."
P_saved          == "Saved to"
P_complete       == "Dependency Resolution Complete."
P_res_failed     == "Dependency Resolution Failed."

\* The exception that ends execute_strategy, if any: iterating a conflict
\* matrix that is a number raises TypeError at line 224, before the
\* requirement file is opened; open(), write and starting the installer raise
\* OSError; output that is not text in the locale's encoding raises
\* UnicodeDecodeError once the installer has exited.
execute_fault(kb, w, l) ==
    IF "conflict_matrix" \in kb.mistyped THEN "TypeError"
    ELSE IF ~Completed(w, l) THEN "OSError"
    ELSE IF l = "undecodable" THEN "UnicodeDecodeError"
    ELSE "none"

\* Whether the installer ran to its end in an attempt that ends with fault.
installer_ran(fault) == fault \in {"none", "UnicodeDecodeError"}

\* What execute_strategy prints, and the last line of the traceback when an
\* exception leaves it.
strategy_lines(strategy_name, constraints, fault, returncode) ==
    <<IF strategy_name = "naive_merge" THEN P_naive ELSE P_dictator>>
    \o (IF fault # "TypeError" /\ constraints # <<>> THEN <<P_constraints>> ELSE <<>>)
    \o (IF fault # "none" THEN <<fault>>
        ELSE IF returncode = 0 THEN <<P_success>> ELSE <<P_failed>>)

\* A strategy attempt that consumes the first component of the manifest.
with_trial_consuming_manifest(agent, strategy_name, returncode) ==
    [agent EXCEPT !.trials =
                      Append(@, [strategy |-> strategy_name, success |-> (returncode = 0)]),
                  !.input_manifest = IF @ = <<>> THEN @ ELSE Tail(@)]

\* A trial record that reports every installer run as a success.
with_trial_always_success(agent, strategy_name, returncode) ==
    [agent EXCEPT !.trials =
        Append(@, [strategy |-> strategy_name, success |-> TRUE])]

\* self.trials.append({...}) (187-192); duration and log_snippet are not kept.
with_trial(agent, strategy_name, returncode) ==
    [agent EXCEPT !.trials =
        Append(@, [strategy |-> strategy_name, success |-> (returncode = 0)])]

\* What a run of the installer on a requirement list installs: all of it
\* when it returns 0, and otherwise nothing or, when the run fails part way,
\* the first requirement.
uv_pip_install(final_reqs, returncode, partial) ==
    IF returncode = 0 THEN {final_reqs[k] : k \in DOMAIN final_reqs}
    ELSE IF partial /\ final_reqs # <<>> THEN {final_reqs[1]}
    ELSE {}

\* Attempts that are isolated: what a failed run installed is rolled back.
environment_after_rollback(env, installed, returncode) ==
    IF returncode = 0 THEN env \cup installed ELSE env

\* The environment when execute_strategy returns (lines 181-205): what the
\* installer run left; nothing is uninstalled or restored after subprocess.run.
environment_after(env, installed, returncode) == env \cup installed

\* Lines 147-184 of execute_strategy on the solving object: the requirement
\* file is written, then the installer runs on it and exits with returncode.
\* installer_calls holds the runs of the installer that reached their end,
\* whether or not subprocess.run then returned.
ExecuteStrategyIO(strategy_name, constraints, override_packages, w, l, returncode, partial) ==
    LET agent == agents[receiver.solve]
        fault == execute_fault(agent.kb, w, l)
        final_reqs == build_final_reqs(agent.input_manifest, agent.kb.conflict_matrix,
                                       constraints, override_packages)
        text == join_lines(final_reqs)
        sid  == agent.session_id
        installed == uv_pip_install(final_reqs, returncode, partial)
    IN  /\ environment' = IF installer_ran(fault)
                          THEN environment_after(environment, installed, returncode)
                          ELSE environment
        /\ temp_req' = IF fault # "TypeError" /\ w # "oserror"
                       THEN [s \in DOMAIN temp_req \cup {sid} |->
                                IF s = sid THEN (IF w = "written" THEN text ELSE <<>>)
                                ELSE temp_req[s]]
                       ELSE temp_req
        /\ installer_calls' =
              IF installer_ran(fault)
              THEN Append(installer_calls,
                          [session_id |-> sid, strategy |-> strategy_name,
                           input |-> text, returncode |-> returncode,
                           seen |-> environment, installed |-> installed])
              ELSE installer_calls

\* ------------------------------------------------------ solve (274-295)

\* A fallback test that looks only at whether the strategy is configured.
fallback_enabled_if_present(strategies) == "dictator_mode" \in DOMAIN strategies

\* Lines 283-284: dictator_config.get("enabled") of strategies.get("dictator_mode", {}).
fallback_enabled(strategies) ==
    Get(Get(strategies, "dictator_mode", <<>>), "enabled", FALSE)

\* Lines 275-284 and, with no enabled fallback, 294: the default strategy.
\* An exception of execute_strategy, or of strategies.get on a number, is
\* caught nowhere: the process ends with a traceback and exit status 1.
SolveNaive ==
    /\ pc = "solve"
    /\ \E w \in WriteOutcomes, l \in LaunchOutcomes, returncode \in ReturnCodes,
          partial \in BOOLEAN :
        LET a == receiver.solve
            fault == execute_fault(agents[a].kb, w, l)
            lines == <<P_battle>> \o strategy_lines("naive_merge", <<>>, fault, returncode)
        IN  /\ ExecuteStrategyIO("naive_merge", <<>>, <<>>, w, l, returncode, partial)
            /\ IF fault # "none"
               THEN /\ agents' = agents
                    /\ pc' = "crashed"
                    /\ exit_code' = 1
                    /\ output' = output \o lines
               ELSE IF returncode = 0
               THEN /\ agents' = [agents EXCEPT ![a] =
                          [with_trial(@, "naive_merge", returncode)
                              EXCEPT !.status = "success"]]
                    /\ pc' = "finalize"
                    /\ exit_code' = exit_code
                    /\ output' = output \o lines
               ELSE IF "strategies" \in agents[a].kb.mistyped
               THEN /\ agents' = [agents EXCEPT ![a] =
                          with_trial(@, "naive_merge", returncode)]
                    /\ pc' = "crashed"
                    /\ exit_code' = 1
                    /\ output' = output \o lines \o <<"AttributeError">>
               ELSE IF fallback_enabled(agents[a].kb.strategies)
               THEN /\ agents' = [agents EXCEPT ![a] =
                          with_trial(@, "naive_merge", returncode)]
                    /\ pc' = "dictator"
                    /\ exit_code' = exit_code
                    /\ output' = output \o lines
               ELSE /\ agents' = [agents EXCEPT ![a] =
                          [with_trial(@, "naive_merge", returncode)
                              EXCEPT !.status = "failed"]]
                    /\ pc' = "finalize"
                    /\ exit_code' = exit_code
                    /\ output' = output \o lines
    /\ UNCHANGED <<fs, kbfile, receiver, telemetry, recipes, arb_vars, parser_vars, resolver_vars,
                   query_vars>>

\* Lines 285-295: the fallback strategy, configured by the knowledge base.
SolveDictator ==
    /\ pc = "dictator"
    /\ \E w \in WriteOutcomes, l \in LaunchOutcomes, returncode \in ReturnCodes,
          partial \in BOOLEAN :
        LET a == receiver.solve
            dictator_config == Get(agents[a].kb.strategies, "dictator_mode", <<>>)
            constraints == Get(dictator_config, "modern_constraints", <<>>)
            fault == execute_fault(agents[a].kb, w, l)
        IN  /\ ExecuteStrategyIO("dictator_mode", constraints,
                                 Get(dictator_config, "override_packages", <<>>),
                                 w, l, returncode, partial)
            /\ output' = output \o <<P_activating>>
                           \o strategy_lines("dictator_mode", constraints, fault, returncode)
            /\ IF fault # "none"
               THEN /\ agents' = agents
                    /\ pc' = "crashed"
                    /\ exit_code' = 1
               ELSE /\ exit_code' = exit_code
                    /\ pc' = "finalize"
                    /\ agents' = [agents EXCEPT ![a] =
                          [with_trial(@, "dictator_mode", returncode)
                              EXCEPT !.status = IF returncode = 0 THEN "success"
                                                ELSE "failed"]]
    /\ UNCHANGED <<fs, kbfile, receiver, telemetry, recipes, arb_vars, parser_vars, resolver_vars,
                   query_vars>>

\* ---------------------------------------------------- the scan step (314)

\* scan_environment on the scanning object.  node_rules.get on a number
\* raises AttributeError for the first directory os.walk yields, the root.
ScanEnvironment ==
    /\ pc = "scan"
    /\ IF fs.exists /\ "node_specific_rules" \in agents[receiver.scan].kb.mistyped
       THEN /\ agents' = agents
            /\ pc' = "crashed"
            /\ exit_code' = 1
            /\ output' = output \o <<P_scanning, "AttributeError">>
       ELSE /\ agents' = [agents EXCEPT ![receiver.scan].input_manifest =
                   scan_environment(fs, agents[receiver.scan].kb.node_rules, @)]
            /\ pc' = "solve"
            /\ exit_code' = exit_code
            /\ output' = output \o <<P_scanning>>
    /\ UNCHANGED <<fs, kbfile, receiver, temp_req, installer_calls, telemetry,
                   recipes, environment, arb_vars, parser_vars, resolver_vars,
                   query_vars>>

\* --------------------------------------------------- finalize (297-311)

\* The outcomes of the upload inside Telemetry.send.
UploadOutcomes == {"uploaded", "failed"}
\* export_recipe: the recipe is written; pip freeze fails and check_output
\* raises CalledProcessError; what pip freeze printed cannot be decoded and
\* check_output raises UnicodeDecodeError; os.makedirs, starting pip or open
\* raises OSError; or open creates the recipe file and json.dump or the
\* closing of the file raises OSError, leaving the file without a recipe.
ExportOutcomes ==
    {"saved", "CalledProcessError", "UnicodeDecodeError", "OSError", "write_OSError"}

\* The last line of the traceback of an export that raises.
export_fault(ex) == IF ex = "write_OSError" THEN "OSError" ELSE ex

\* The files of RECIPE_OUTPUT_PATH after export_recipe on the session sid:
\* each has the session it was opened for and whether it holds the recipe.
export_recipe(files, sid, ex) ==
    IF ex = "saved" THEN Append(files, [session_id |-> sid, complete |-> TRUE])
    ELSE IF ex = "write_OSError" THEN Append(files, [session_id |-> sid, complete |-> FALSE])
    ELSE files

\* A send whose upload failure is not caught.
Telemetry_send_uncaught(data, up) ==
    [record |-> [data |-> data, outcome |-> up],
     lines  |-> <<P_uploading>> \o (IF up = "uploaded" THEN <<P_upload_success>> ELSE <<>>),
     raised |-> (up = "failed")]

\* Telemetry.send (46-69): the record handed over, what is printed, and
\* whether an exception leaves the call: the try covers serialisation and
\* transport, and except Exception prints the failure.
Telemetry_send(data, up) ==
    [record |-> [data |-> data, outcome |-> up],
     lines  |-> <<P_uploading, IF up = "uploaded" THEN P_upload_success
                               ELSE P_upload_failed>>,
     raised |-> FALSE]

Finalize ==
    /\ pc = "finalize"
    /\ \E up \in UploadOutcomes, ex \in ExportOutcomes :
        LET agent == agents[receiver.finalize]
            data  == [session_id     |-> agent.session_id,
                      input_manifest |-> agent.input_manifest,
                      trials         |-> agent.trials,
                      final_status   |-> agent.status]
            sent  == Telemetry_send(data, up)
        IN  /\ telemetry' = Append(telemetry, sent.record)
            /\ IF sent.raised
               THEN /\ recipes' = recipes
                    /\ pc' = "crashed"
                    /\ exit_code' = 1
                    /\ output' = output \o sent.lines \o <<"URLError">>
               ELSE IF agent.status = "success"
               THEN IF ex = "saved"
                    THEN /\ recipes' = export_recipe(recipes, agent.session_id, ex)
                         /\ pc' = "exited"
                         /\ exit_code' = 0
                         /\ output' = output \o sent.lines
                                        \o <<P_freezing, P_saved, P_complete>>
                    ELSE /\ recipes' = export_recipe(recipes, agent.session_id, ex)
                         /\ pc' = "crashed"
                         /\ exit_code' = 1
                         /\ output' = output \o sent.lines
                                        \o <<P_freezing, export_fault(ex)>>
               ELSE /\ recipes' = recipes
                    /\ pc' = "exited"
                    /\ exit_code' = 1
                    /\ output' = output \o sent.lines \o <<P_res_failed>>
    /\ UNCHANGED <<fs, kbfile, receiver, agents, temp_req, installer_calls,
                   environment, arb_vars, parser_vars, resolver_vars,
                   query_vars>>

\* -------------------------------------------------- the parser on its own

\* A call of Utils.get_package_name on req_string.
Parse ==
    /\ pkg_name = <<>>
    /\ pkg_name' = Append(pkg_name, get_package_name(req_string))
    /\ UNCHANGED <<session_vars, arb_vars, req_string, resolver_vars, query_vars>>

\* ------------------------------------------------- the arbiter on its own

\* A pass of apply_conflict_matrix: the first over the requirement list, the
\* second over the first pass's output.
Arbitrate ==
    /\ Len(arb_passes) < 2
    /\ arb_passes' = Append(arb_passes,
           apply_conflict_matrix(IF arb_passes = <<>> THEN arb_requirements
                                 ELSE arb_passes[Len(arb_passes)],
                                 arb_matrix))
    /\ UNCHANGED <<session_vars, arb_requirements, arb_matrix, parser_vars,
                   resolver_vars, query_vars>>

\* ------------------------------- the v1 resolver (resolve_dependencies.py)

\* CUSTOM_NODES_PATH = os.path.join(COMFY_PATH, "custom_nodes")
CUSTOM_NODES_PATH == <<"/","a","p","p","/","e","x","t","e","r","n","a","l","/","C","o","m","f","y","U","I","/","c","u","s","t","o","m","_","n","o","d","e","s">>

\* os.path.join(a, b) for a relative b.
os_path_join(a, b) == a \o <<"/">> \o b

\* The directory os.walk reports as root for the entry at a path below
\* CUSTOM_NODES_PATH.
RECURSIVE walk_root(_)
walk_root(path) ==
    IF path = <<>> THEN CUSTOM_NODES_PATH
    ELSE os_path_join(walk_root(SubSeq(path, 1, Len(path) - 1)), path[Len(path)])

\* os.path.dirname and os.path.basename of a path that contains a slash.
last_slash(p) == CHOOSE i \in DOMAIN p : p[i] = "/" /\ \A j \in (i + 1)..Len(p) : p[j] # "/"
os_path_dirname(p) == SubSeq(p, 1, last_slash(p) - 1)
os_path_basename(p) == SubSeq(p, last_slash(p) + 1, Len(p))

\* The characters of the paths in code-point order, and a character's rank.
CodePointOrder ==
    <<"-", ".", "/", "0", "1", "2", "3", "4", "5", "6", "7", "8", "9">>
    \o UpperChars \o <<"_">> \o LowerChars
ord == [c \in {CodePointOrder[i] : i \in DOMAIN CodePointOrder} |->
           CHOOSE i \in DOMAIN CodePointOrder : CodePointOrder[i] = c]

\* a < b for two strings, as Python compares them.
RECURSIVE str_lt(_, _)
str_lt(a, b) ==
    IF b = <<>> THEN FALSE
    ELSE IF a = <<>> THEN TRUE
    ELSE IF a[1] = b[1] THEN str_lt(Tail(a), Tail(b))
    ELSE ord[a[1]] < ord[b[1]]

\* sorted(seq) for a list of strings.
RECURSIVE insert_sorted(_, _)
insert_sorted(seq, x) ==
    IF seq = <<>> THEN <<x>>
    ELSE IF str_lt(x, seq[1]) THEN <<x>> \o seq
    ELSE <<seq[1]>> \o insert_sorted(Tail(seq), x)
RECURSIVE sorted(_)
sorted(seq) ==
    IF seq = <<>> THEN <<>>
    ELSE insert_sorted(sorted(SubSeq(seq, 1, Len(seq) - 1)), seq[Len(seq)])

\* Lines 31-35: every file named requirements.txt below the root, in walk
\* order.
RECURSIVE find_req_files(_, _, _)
find_req_files(walk, i, found) ==
    IF i > Len(walk) THEN found
    ELSE find_req_files(walk, i + 1,
             IF REQUIREMENTS_TXT \in DOMAIN walk[i].files
             THEN Append(found, os_path_join(walk_root(walk[i].path), REQUIREMENTS_TXT))
             ELSE found)

\* A scan that returns the files in the order os.walk met them.
get_all_requirements_unsorted(tree) ==
    IF ~tree.exists THEN <<>> ELSE find_req_files(tree.walk, 1, <<>>)

\* get_all_requirements (23-38).
get_all_requirements(tree) ==
    IF ~tree.exists THEN <<>> ELSE sorted(find_req_files(tree.walk, 1, <<>>))

\* The lines an installer run prints before it exits (none, or one), and
\* str(e) of an exception (which is empty for an exception without
\* arguments).
CapturedLogs == {<<>>, <<<<"e","r","r","o","r","\n">>>>}
ExceptionMessages == {<<>>, <<"E","r","r","n","o">>}

\* What an installer run on one file does: it prints log and exits with
\* status 0 or with another status, or starting it or reading its output
\* raises an exception whose text is message.
InstallOutcomes ==
    [code : {"0", "1"}, log : CapturedLogs, message : {<<>>}]
    \cup [code : {"exception"}, log : {<<>>}, message : ExceptionMessages]

\* "".join(lines)
RECURSIVE join_empty(_)
join_empty(lines) ==
    IF lines = <<>> THEN <<>> ELSE lines[1] \o join_empty(Tail(lines))

\* Lines 47-101: one pass of the loop body over req_file.  error_log starts
\* empty (54); a failed run sets it to the joined captured lines (92), which
\* are empty when the installer printed nothing, and an exception to str(e)
\* (98).
install_one(acc, req_file, outcome) ==
    LET entry == [node_name |-> os_path_basename(os_path_dirname(req_file)),
                  file_path |-> req_file,
                  status    |-> IF outcome.code = "0" THEN "success"
                                ELSE IF outcome.code = "1" THEN "failed"
                                ELSE "error",
                  error_log |-> IF outcome.code = "0" THEN <<>>
                                ELSE IF outcome.code = "1" THEN join_empty(outcome.log)
                                ELSE outcome.message]
    IN  [results       |-> Append(acc.results, entry),
         success_count |-> acc.success_count + (IF outcome.code = "0" THEN 1 ELSE 0),
         fail_count    |-> acc.fail_count + (IF outcome.code = "0" THEN 0 ELSE 1),
         popen         |-> Append(acc.popen, req_file)]

\* A loop that gives up at the first file whose install does not succeed.
RECURSIVE install_loop_until_failure(_, _, _, _)
install_loop_until_failure(files, outcomes, i, acc) ==
    IF i > Len(files) THEN acc
    ELSE IF outcomes[i].code # "0" THEN install_one(acc, files[i], outcomes[i])
    ELSE install_loop_until_failure(files, outcomes, i + 1,
                                    install_one(acc, files[i], outcomes[i]))

\* for req_file in req_files (46-101).
RECURSIVE install_loop(_, _, _, _)
install_loop(files, outcomes, i, acc) ==
    IF i > Len(files) THEN acc
    ELSE install_loop(files, outcomes, i + 1, install_one(acc, files[i], outcomes[i]))

\* install_and_record (40-103).
install_and_record(files, outcomes) ==
    install_loop(files, outcomes, 1,
                 [results |-> <<>>, success_count |-> 0, fail_count |-> 0,
                  popen |-> <<>>])

\* main, line 165: reqs = get_all_requirements().
GetAllRequirements ==
    /\ pc = "v1_scan"
    /\ req_files' = get_all_requirements(fs)
    /\ pc' = "v1_install"
    /\ UNCHANGED <<fs, kbfile, receiver, agents, temp_req, installer_calls, telemetry,
                   recipes, exit_code, output, environment, popen_calls, results,
                   success_count, fail_count, arb_vars, parser_vars, query_vars>>

\* main, lines 166-170: install_and_record(reqs), or ([], 0, 0) when nothing
\* was found.
InstallAndRecord ==
    /\ pc = "v1_install"
    /\ \E outcomes \in [DOMAIN req_files -> InstallOutcomes] :
          LET ret == IF req_files # <<>> THEN install_and_record(req_files, outcomes)
                     ELSE [results |-> <<>>, success_count |-> 0, fail_count |-> 0,
                           popen |-> <<>>]
          IN  /\ results' = ret.results
              /\ success_count' = ret.success_count
              /\ fail_count' = ret.fail_count
              /\ popen_calls' = ret.popen
    /\ pc' = "v1_returned"
    /\ UNCHANGED <<fs, kbfile, receiver, agents, temp_req, installer_calls, telemetry,
                   recipes, exit_code, output, environment, req_files, arb_vars,
                   parser_vars, query_vars>>

\* ------------------------------------ model queries (brain.py, server.py)

\* What the model server answers to a generate request: an HTTP status, or 0
\* when the connection fails.  What reading the body of an answer with
\* status 200 gives: a JSON object, or nothing the client can use (the
\* connection is lost while the body is read, or the body is not JSON or not
\* an object).  What "ollama pull" does: it succeeds, exits with an error, or
\* the executable is not found.
Responses == {200, 404, 500, 0}
BodyOutcomes == {"json", "unreadable"}
PullOutcomes == {"ok", "failed", "missing"}

\* The server answers the requests in the order they reach it, by its
\* script, and refuses connections once the script is used up.
ResponseAt(script, k) ==
    IF k \in DOMAIN script.responses THEN script.responses[k] ELSE 0
BodyAt(script, k) ==
    IF k \in DOMAIN script.bodies THEN script.bodies[k] ELSE "unreadable"

\* A query that has not started, and a query that has ended.
NewQuery ==
    [state |-> "new", status |-> -1, body |-> "none", depth |-> 1, value |-> "none",
     raised |-> FALSE, requests |-> 0, pulls |-> 0]
Returns(value, sent, pulled) ==
    [state |-> "done", status |-> -1, body |-> "none", depth |-> 1, value |-> value,
     raised |-> FALSE, requests |-> sent, pulls |-> pulled]
Raises(exception, sent, pulled) ==
    [state |-> "done", status |-> -1, body |-> "none", depth |-> 1, value |-> exception,
     raised |-> TRUE, requests |-> sent, pulls |-> pulled]

\* BrainEngine._send_request (brain.py 154-178) after sent requests and
\* pulled pulls.  Reading and parsing the body (167-168) is inside the try:
\* what it raises is caught at 177.  OllamaManager.pull_model (98-110)
\* catches only CalledProcessError, and an exception raised inside the
\* HTTPError handler is not caught by the handler next to it.
RECURSIVE send_request(_, _, _, _)
send_request(script, retry, sent, pulled) ==
    LET status == ResponseAt(script, sent + 1)
    IN  IF status = 200
        THEN IF BodyAt(script, sent + 1) = "json"
             THEN Returns("response", sent + 1, pulled)
             ELSE Returns("AI Connection Error", sent + 1, pulled)
        ELSE IF status = 0 THEN Returns("AI Connection Error", sent + 1, pulled)
        ELSE IF status = 404 /\ retry
        THEN LET pull == script.pulls[pulled + 1]
             IN  IF pull = "ok" THEN send_request(script, FALSE, sent + 1, pulled + 1)
                 ELSE IF pull = "failed" THEN Returns("AI Error", sent + 1, pulled + 1)
                 ELSE Raises("FileNotFoundError", sent + 1, pulled + 1)
        ELSE Returns("AI Error", sent + 1, pulled)

\* Where the RecursionError of a call nested too deep is raised: inside
\* _pull_model before the pull starts, or entering the next query.
Overflows == {"in_pull", "in_query"}

\* The requests the server has received and the pulls that have run.
RECURSIVE Served(_)
Served(qs) == IF qs = <<>> THEN 0 ELSE qs[1].requests + Served(Tail(qs))
RECURSIVE Pulled(_)
Pulled(qs) == IF qs = <<>> THEN 0 ELSE qs[1].pulls + Pulled(Tail(qs))

\* server.py 235: session.post hands the request to the server, which
\* answers it with status and, when the status is 200, a body, and the
\* coroutine waits for the answer.
query_post(q, status, body) ==
    [q EXCEPT !.state = "awaiting", !.status = status,
              !.body = IF status = 200 THEN body ELSE "none", !.requests = @ + 1]

\* OllamaClient.query (server.py 217-259) from the point where the event
\* loop resumes it to the point where it waits again or returns.  Resumed
\* with the answer to its request (235-240): a failed connection and every
\* other exception inside the try become an error value; on 404 _pull_model
\* (262-265) runs "ollama pull" without giving up the loop and raises when
\* the pull fails, and the nested query posts the next request; on 200 it
\* waits for the body (243).  Resumed with the body (243-256), it returns
\* the response, or the error value of 258-259 when resp.json() or the lines
\* after it raise.
query_resume(q, script, overflow, served, pulled) ==
    IF q.state = "reading"
    THEN IF q.body = "json" THEN Returns("response", q.requests, q.pulls)
         ELSE Returns("Connection Error", q.requests, q.pulls)
    ELSE IF q.status = 0 THEN Returns("Connection Error", q.requests, q.pulls)
    ELSE IF q.status = 404
    THEN IF q.depth = MaxDepth /\ overflow = "in_pull"
         THEN Returns("Connection Error", q.requests, q.pulls)
         ELSE IF script.pulls[pulled + 1] # "ok"
         THEN Returns("Connection Error", q.requests, q.pulls + 1)
         ELSE IF q.depth = MaxDepth
         THEN Returns("Connection Error", q.requests, q.pulls + 1)
         ELSE [query_post(q, ResponseAt(script, served + 1), BodyAt(script, served + 1))
                  EXCEPT !.depth = @ + 1, !.pulls = @ + 1]
    ELSE IF q.status # 200 THEN Returns("Ollama Error", q.requests, q.pulls)
    ELSE [q EXCEPT !.state = "reading"]

\* Every query has returned.
AllDone(qs) == \A k \in DOMAIN qs : qs[k].state = "done"

\* BrainEngine.query (brain.py 131-152): _send_request(payload), in a
\* process of its own.
BrainQuery ==
    /\ pc = "query"
    /\ client = "brain"
    /\ queries' = <<send_request(server_script, TRUE, 0, 0)>>
    /\ pc' = "answered"
    /\ UNCHANGED <<fs, kbfile, receiver, agents, temp_req, installer_calls, telemetry,
                   recipes, exit_code, output, environment, arb_vars, parser_vars,
                   resolver_vars, client, server_script>>

\* chat_handler (server.py 282) calls OllamaClient.query: the coroutine
\* runs up to its first request.
BridgeQueryStart(k) ==
    /\ pc = "query"
    /\ client = "bridge"
    /\ queries[k].state = "new"
    /\ queries' = [queries EXCEPT
                      ![k] = query_post(@, ResponseAt(server_script, Served(queries) + 1),
                                        BodyAt(server_script, Served(queries) + 1))]
    /\ UNCHANGED <<fs, kbfile, receiver, agents, pc, temp_req, installer_calls,
                   telemetry, recipes, exit_code, output, environment, arb_vars,
                   parser_vars, resolver_vars, client, server_script>>

\* The event loop resumes a waiting query.
BridgeQueryResume(k) ==
    /\ pc = "query"
    /\ client = "bridge"
    /\ queries[k].state \in {"awaiting", "reading"}
    /\ \E overflow \in Overflows :
          queries' = [queries EXCEPT
                         ![k] = query_resume(@, server_script, overflow,
                                             Served(queries), Pulled(queries))]
    /\ pc' = IF AllDone(queries') THEN "answered" ELSE pc
    /\ UNCHANGED <<fs, kbfile, receiver, agents, temp_req, installer_calls, telemetry,
                   recipes, exit_code, output, environment, arb_vars, parser_vars,
                   resolver_vars, client, server_script>>

\* --------------------------------------------------------- specifications

ArbIdle ==
    /\ arb_requirements = <<>>
    /\ arb_matrix = <<>>
    /\ arb_passes = <<>>

ParserIdle ==
    /\ req_string = <<>>
    /\ pkg_name = <<>>

ResolverIdle ==
    /\ req_files = <<>>
    /\ popen_calls = <<>>
    /\ results = <<>>
    /\ success_count = 0
    /\ fail_count = 0

QueryIdle ==
    /\ client = "none"
    /\ server_script = <<>>
    /\ queries = <<>>

SessionStart ==
    /\ fs \in FsChoices
    /\ kbfile \in KbChoices
    /\ pc = "scan"
    /\ temp_req = <<>>
    /\ installer_calls = <<>>
    /\ telemetry = <<>>
    /\ recipes = <<>>
    /\ exit_code = -1
    /\ output = <<>>
    /\ environment = {}

\* __main__ (313-316): each of the three statements constructs its own
\* DependencyAgent and calls one method on it.
Init ==
    /\ SessionStart
    /\ receiver = [scan |-> 1, solve |-> 2, finalize |-> 3]
    /\ agents = [id \in 1..3 |-> DependencyAgent(id, kbfile)]
    /\ ArbIdle
    /\ ParserIdle
    /\ ResolverIdle
    /\ QueryIdle

\* One DependencyAgent driven through scan_environment, solve and finalize.
SessionInit ==
    /\ SessionStart
    /\ receiver = [scan |-> 1, solve |-> 1, finalize |-> 1]
    /\ agents = [id \in 1..1 |-> DependencyAgent(id, kbfile)]
    /\ ArbIdle
    /\ ParserIdle
    /\ ResolverIdle
    /\ QueryIdle

\* apply_conflict_matrix applied to a requirement list and a matrix.
ArbInit ==
    /\ fs = [exists |-> FALSE, walk |-> <<>>]
    /\ kbfile = KbAbsent
    /\ receiver = [scan |-> 1, solve |-> 1, finalize |-> 1]
    /\ agents = <<>>
    /\ pc = "arbiter"
    /\ temp_req = <<>>
    /\ installer_calls = <<>>
    /\ telemetry = <<>>
    /\ recipes = <<>>
    /\ exit_code = -1
    /\ output = <<>>
    /\ environment = {}
    /\ ParserIdle
    /\ ResolverIdle
    /\ QueryIdle
    /\ arb_requirements \in SeqsUpTo(ArbiterPool, MaxReqs)
    /\ arb_matrix \in InjSeqsUpTo(ArbiterRules, MaxRules)
    /\ arb_passes = <<>>

\* apply_conflict_matrix called on a list of distinct declarations with
\* every ordering of a choice of rules.
OrderInit ==
    /\ fs = [exists |-> FALSE, walk |-> <<>>]
    /\ kbfile = KbAbsent
    /\ receiver = [scan |-> 1, solve |-> 1, finalize |-> 1]
    /\ agents = <<>>
    /\ pc = "arbiter"
    /\ temp_req = <<>>
    /\ installer_calls = <<>>
    /\ telemetry = <<>>
    /\ recipes = <<>>
    /\ exit_code = -1
    /\ output = <<>>
    /\ environment = {}
    /\ ParserIdle
    /\ ResolverIdle
    /\ QueryIdle
    /\ arb_requirements \in InjSeqsUpTo(OrderPool, MaxReqs)
    /\ arb_matrix \in InjSeqsUpTo(ArbiterRules, MaxRules)
    /\ arb_passes = <<>>

\* One DependencyAgent constructed over a knowledge-base file of an
\* unexpected shape.
KbInit ==
    /\ fs \in KbFsChoices
    /\ kbfile \in KbShapeChoices
    /\ pc = "scan"
    /\ temp_req = <<>>
    /\ installer_calls = <<>>
    /\ telemetry = <<>>
    /\ recipes = <<>>
    /\ exit_code = -1
    /\ output = <<>>
    /\ environment = {}
    /\ receiver = [scan |-> 1, solve |-> 1, finalize |-> 1]
    /\ agents = [id \in 1..1 |-> DependencyAgent(id, kbfile)]
    /\ ArbIdle
    /\ ParserIdle
    /\ ResolverIdle
    /\ QueryIdle

\* One DependencyAgent about to scan a tree, with and without node rules.
ScanInit ==
    /\ fs \in ScanFsChoices
    /\ kbfile \in {KbAbsent,
                   KbFile(TRUE, TRUE, TRUE,
                          [node_specific_rules |-> NodeRules_NodeA], {}),
                   KbFile(TRUE, TRUE, TRUE,
                          [node_specific_rules |-> NodeRules_scan], {})}
    /\ pc = "scan"
    /\ temp_req = <<>>
    /\ installer_calls = <<>>
    /\ telemetry = <<>>
    /\ recipes = <<>>
    /\ exit_code = -1
    /\ output = <<>>
    /\ environment = {}
    /\ receiver = [scan |-> 1, solve |-> 1, finalize |-> 1]
    /\ agents = [id \in 1..1 |-> DependencyAgent(id, kbfile)]
    /\ ArbIdle
    /\ ParserIdle
    /\ ResolverIdle
    /\ QueryIdle

\* One DependencyAgent over a knowledge base that writes package names in
\* another case or with '-'.
NamesInit ==
    /\ fs \in NamesFsChoices
    /\ kbfile \in NamesKbChoices
    /\ pc = "scan"
    /\ temp_req = <<>>
    /\ installer_calls = <<>>
    /\ telemetry = <<>>
    /\ recipes = <<>>
    /\ exit_code = -1
    /\ output = <<>>
    /\ environment = {}
    /\ receiver = [scan |-> 1, solve |-> 1, finalize |-> 1]
    /\ agents = [id \in 1..1 |-> DependencyAgent(id, kbfile)]
    /\ ArbIdle
    /\ ParserIdle
    /\ ResolverIdle
    /\ QueryIdle

\* One DependencyAgent driven through a session with canonical names.
PhaseInit ==
    /\ fs \in PhaseFsChoices
    /\ kbfile \in PhaseKbChoices
    /\ pc = "scan"
    /\ temp_req = <<>>
    /\ installer_calls = <<>>
    /\ telemetry = <<>>
    /\ recipes = <<>>
    /\ exit_code = -1
    /\ output = <<>>
    /\ environment = {}
    /\ receiver = [scan |-> 1, solve |-> 1, finalize |-> 1]
    /\ agents = [id \in 1..1 |-> DependencyAgent(id, kbfile)]
    /\ ArbIdle
    /\ ParserIdle
    /\ ResolverIdle
    /\ QueryIdle

\* resolve_dependencies.main started on a component tree.
ResolverInit ==
    /\ fs \in V1FsChoices
    /\ kbfile = KbAbsent
    /\ receiver = [scan |-> 1, solve |-> 1, finalize |-> 1]
    /\ agents = <<>>
    /\ pc = "v1_scan"
    /\ temp_req = <<>>
    /\ installer_calls = <<>>
    /\ telemetry = <<>>
    /\ recipes = <<>>
    /\ exit_code = -1
    /\ output = <<>>
    /\ environment = {}
    /\ ArbIdle
    /\ ParserIdle
    /\ ResolverIdle
    /\ QueryIdle

\* One query of the command-line client, or up to MaxQueries queries of the
\* bridge on one event loop, to a server that answers by a script.
QueryInit ==
    /\ fs = [exists |-> FALSE, walk |-> <<>>]
    /\ kbfile = KbAbsent
    /\ receiver = [scan |-> 1, solve |-> 1, finalize |-> 1]
    /\ agents = <<>>
    /\ pc = "query"
    /\ temp_req = <<>>
    /\ installer_calls = <<>>
    /\ telemetry = <<>>
    /\ recipes = <<>>
    /\ exit_code = -1
    /\ output = <<>>
    /\ environment = {}
    /\ ArbIdle
    /\ ParserIdle
    /\ ResolverIdle
    /\ client \in {"brain", "bridge"}
    /\ server_script \in [responses : [1..MaxDepth -> Responses],
                          bodies : [1..MaxDepth -> BodyOutcomes],
                          pulls : [1..MaxDepth -> PullOutcomes]]
    /\ queries \in {[k \in 1..n |-> NewQuery] :
                       n \in 1..(IF client = "brain" THEN 1 ELSE MaxQueries)}

\* Utils.get_package_name applied to a raw line.
ParserInit ==
    /\ fs = [exists |-> FALSE, walk |-> <<>>]
    /\ kbfile = KbAbsent
    /\ receiver = [scan |-> 1, solve |-> 1, finalize |-> 1]
    /\ agents = <<>>
    /\ pc = "parser"
    /\ temp_req = <<>>
    /\ installer_calls = <<>>
    /\ telemetry = <<>>
    /\ recipes = <<>>
    /\ exit_code = -1
    /\ output = <<>>
    /\ environment = {}
    /\ ArbIdle
    /\ ResolverIdle
    /\ QueryIdle
    /\ req_string \in ParserLines
    /\ pkg_name = <<>>

Next == ScanEnvironment \/ SolveNaive \/ SolveDictator \/ Finalize

ParserNext == Parse

ScanNext == ScanEnvironment

ArbNext == Arbitrate

Spec == Init /\ [][Next]_vars

SpecSession == SessionInit /\ [][Next]_vars

SpecArbiter == ArbInit /\ [][ArbNext]_vars

SpecOrder == OrderInit /\ [][ArbNext]_vars

SpecKb == KbInit /\ [][Next]_vars

SpecScan == ScanInit /\ [][ScanNext]_vars

SpecNames == NamesInit /\ [][Next]_vars

SpecPhases == PhaseInit /\ [][Next]_vars

SpecParser == ParserInit /\ [][ParserNext]_vars

ResolverNext == GetAllRequirements \/ InstallAndRecord

SpecResolver == ResolverInit /\ [][ResolverNext]_vars

QueryNext ==
    \/ BrainQuery
    \/ \E k \in DOMAIN queries : BridgeQueryStart(k)
    \/ \E k \in DOMAIN queries : BridgeQueryResume(k)

SpecQuery == QueryInit /\ [][QueryNext]_vars


\* ------------------------------------------------------ claim vocabulary

\* The process has ended through finalize's sys.exit.
Exited == pc = "exited"

\* A recipe has been exported: a file of the recipe directory holds it.
RecipeExported == \E i \in DOMAIN recipes : recipes[i].complete

\* The objects the driver scanned, solved and finalized with.
ScanAgent     == agents[receiver.scan]
SolveAgent    == agents[receiver.solve]
FinalizeAgent == agents[receiver.finalize]

\* What the knowledge-base file says about the fallback strategy.
KbLoads == kbfile.exists /\ kbfile.valid /\ kbfile.object
FileStrategies == IF KbLoads THEN kbfile.data.strategies ELSE <<>>
FileMatrix     == IF KbLoads THEN kbfile.data.conflict_matrix ELSE <<>>
DictatorInFile == IF "dictator_mode" \in DOMAIN FileStrategies
                  THEN FileStrategies["dictator_mode"] ELSE <<>>
DictatorEnabledInFile == "enabled" \in DOMAIN DictatorInFile /\ DictatorInFile["enabled"]

\* The strategy names of a trial list, in order.
StrategyNames(trials) == [i \in DOMAIN trials |-> trials[i].strategy]

\* The canonical name of a requirement (specification 4.1): the text before
\* the first version operator (==, >=, <=, !=, ~=, <, >), extras bracket or
\* ';' marker, trimmed, lower-cased, with '-' written '_'.
OperatorAt(s, i) ==
    \/ s[i] \in {"=", "<", ">", "!", "[", ";"}
    \/ s[i] = "~" /\ i < Len(s) /\ s[i + 1] = "="
canonical_name(req) ==
    LET s == strip(req)
        head == IF \E i \in DOMAIN s : OperatorAt(s, i)
                THEN SubSeq(s, 1, (CHOOSE i \in DOMAIN s :
                                      /\ OperatorAt(s, i)
                                      /\ \A j \in 1..(i - 1) : ~OperatorAt(s, j)) - 1)
                ELSE s
        t == strip(head)
    IN  [i \in DOMAIN t |-> IF lower_char(t[i]) = "-" THEN "_" ELSE lower_char(t[i])]

\* The canonical names of a requirement list.
Names(reqs) == {canonical_name(reqs[i]) : i \in DOMAIN reqs}

\* The rules of a matrix whose trigger set meets the names of reqs, and the
\* union of their ban sets.
FiredRules(reqs, matrix) ==
    {i \in DOMAIN matrix :
        "trigger" \in DOMAIN matrix[i] /\ matrix[i].trigger \cap Names(reqs) # {}}
BanUnion(reqs, matrix) ==
    UNION {IF "ban" \in DOMAIN matrix[i] THEN matrix[i].ban ELSE {} :
              i \in FiredRules(reqs, matrix)}

\* The requirements of reqs whose canonical name is not in a set of names.
Without(reqs, names) ==
    LET Keep(r) == canonical_name(r) \notin names
    IN  SelectSeq(reqs, Keep)

\* Number of times x occurs in a sequence.
Count(x, seq) == Cardinality({i \in DOMAIN seq : seq[i] = x})

\* All requirements of a manifest, component by component.
RECURSIVE Flatten(_)
Flatten(manifest) ==
    IF manifest = <<>> THEN <<>> ELSE manifest[1].value \o Flatten(Tail(manifest))

\* The lines of a requirement file as the installer reads them.
RECURSIVE SplitLines(_)
SplitLines(text) ==
    IF \E i \in DOMAIN text : text[i] = "\n"
    THEN LET k == CHOOSE i \in DOMAIN text :
                     text[i] = "\n" /\ \A j \in 1..(i - 1) : text[j] # "\n"
         IN  <<SubSeq(text, 1, k - 1)>> \o SplitLines(SubSeq(text, k + 1, Len(text)))
    ELSE <<text>>
InputLines(call) == IF call.input = <<>> THEN <<>> ELSE SplitLines(call.input)

\* The overrides and constraints the knowledge-base file gives a call's strategy.
CallOverrides(call) ==
    IF call.strategy = "dictator_mode" /\ "override_packages" \in DOMAIN DictatorInFile
    THEN DictatorInFile["override_packages"] ELSE <<>>
CallConstraints(call) ==
    IF call.strategy = "dictator_mode" /\ "modern_constraints" \in DOMAIN DictatorInFile
    THEN DictatorInFile["modern_constraints"] ELSE <<>>
OverrideNames(call) ==
    {normalize_name(CallOverrides(call)[k]) : k \in DOMAIN CallOverrides(call)}

\* The part of a call's input before the last Len(constraints) lines, and
\* those last lines.
ManifestPart(call) ==
    SubSeq(InputLines(call), 1, Len(InputLines(call)) - Len(CallConstraints(call)))
ConstraintPart(call) ==
    SubSeq(InputLines(call), Len(InputLines(call)) - Len(CallConstraints(call)) + 1,
           Len(InputLines(call)))

\* ---------------------------------------------------------------- claims

\* C1: at process exit the session status is 'success' or 'failed', never
\* 'pending', and a recipe was exported exactly when the status is 'success'.
C1_TerminalStatusAndExport ==
    Exited =>
        /\ FinalizeAgent.status \in {"success", "failed"}
        /\ (RecipeExported) <=> (FinalizeAgent.status = "success")

\* C2: when the default strategy's installer run returns non-zero and the
\* enabled fallback's run returns zero, the session ends with 2 trials and
\* status success, the recipe is exported, and telemetry reports 2 trials.
C2_ScenarioD ==
    ( /\ Exited
      /\ Len(installer_calls) = 2
      /\ installer_calls[1].strategy = "naive_merge"
      /\ installer_calls[1].returncode # 0
      /\ installer_calls[2].strategy = "dictator_mode"
      /\ installer_calls[2].returncode = 0 )
    =>
        /\ Len(FinalizeAgent.trials) = 2
        /\ FinalizeAgent.status = "success"
        /\ RecipeExported
        /\ Len(telemetry) = 1
        /\ Len(telemetry[1].data.trials) = 2

\* C3: a run has one session: scan, every installer run and the telemetry
\* record carry one session id, telemetry reports the scanned manifest, and
\* its trials and final status are those the strategy attempts produced.
C3_SingleSession ==
    Exited =>
        /\ \A i \in DOMAIN installer_calls :
               installer_calls[i].session_id = ScanAgent.session_id
        /\ \A i \in DOMAIN telemetry :
               /\ telemetry[i].data.session_id = ScanAgent.session_id
               /\ telemetry[i].data.input_manifest = ScanAgent.input_manifest
               /\ telemetry[i].data.trials = SolveAgent.trials
               /\ telemetry[i].data.final_status = SolveAgent.status

\* C4: once finalize has run, the exit code is 0 exactly when the session
\* status is 'success' and 1 exactly when it is 'failed', whatever the
\* telemetry upload and the recipe export did.
C4_ExitCodeMatchesStatus ==
    (pc \in {"exited", "crashed"} /\ telemetry # <<>>) =>
        /\ (exit_code = 0) <=> (FinalizeAgent.status = "success")
        /\ (exit_code = 1) <=> (FinalizeAgent.status = "failed")

\* C5: solve attempts naive_merge first and dictator_mode only after a failed
\* naive_merge and only if the knowledge base enables it; once solve has set
\* the status the trials are [naive_merge] or [naive_merge, dictator_mode]
\* accordingly, one for each strategy attempted, and no trial follows a
\* successful one.
C5_TrialOrdering ==
    LET trials == SolveAgent.trials
    IN  /\ \A i \in DOMAIN trials : i < Len(trials) => ~trials[i].success
        /\ SolveAgent.status # "pending" =>
              /\ Len(trials) = Len(installer_calls)
              /\ installer_calls[1].returncode = 0 =>
                     StrategyNames(trials) = <<"naive_merge">>
              /\ (installer_calls[1].returncode # 0 /\ DictatorEnabledInFile) =>
                     StrategyNames(trials) = <<"naive_merge", "dictator_mode">>
              /\ (installer_calls[1].returncode # 0 /\ ~DictatorEnabledInFile) =>
                     StrategyNames(trials) = <<"naive_merge">>

\* solve has returned after a failed default strategy and a fallback attempt.
C5_Witness ==
    /\ SolveAgent.status = "failed"
    /\ StrategyNames(SolveAgent.trials) = <<"naive_merge", "dictator_mode">>
    /\ installer_calls[1].returncode # 0
    /\ DictatorEnabledInFile

\* C6: arbitration is idempotent: a second pass over the first pass's output
\* returns it unchanged, and no rule fired by the second pass bans a
\* requirement that is still present.
C6_ArbitrationIdempotent ==
    Len(arb_passes) >= 2 =>
        /\ arb_passes[2] = arb_passes[1]
        /\ LET seen == DOMAIN req_map(arb_passes[1])
           IN  arb_matrix # <<>> => ban_loop(arb_matrix, 1, seen, {}) \cap seen = {}

\* A second pass over an output from which the first pass purged something
\* and in which a rule still fires.
C6_Witness ==
    /\ Len(arb_passes) >= 2
    /\ arb_passes[1] # arb_requirements
    /\ arb_passes[1] # <<>>
    /\ FiredRules(arb_passes[1], arb_matrix) # {}

\* C7: the arbiter removes exactly the requirements whose canonical name is
\* in the union of the ban sets of the fired rules and keeps all others, in
\* order: a trigger that no fired rule bans stays, a banned trigger goes.
C7_PurgeByBanSetOnly ==
    Len(arb_passes) >= 1 =>
        arb_passes[1] =
            Without(arb_requirements, BanUnion(arb_requirements, arb_matrix))

\* C8: override exclusivity: in a strategy's installer input, a requirement
\* whose canonical name is an override package occurs only as often as the
\* strategy's own constraints list it, and never among the manifest-derived
\* lines.
C8_OverrideExclusivity ==
    \A i \in DOMAIN installer_calls :
        LET call  == installer_calls[i]
            lines == InputLines(call)
        IN  /\ \A j \in DOMAIN lines :
                   canonical_name(lines[j]) \in OverrideNames(call) =>
                       Count(lines[j], lines) = Count(lines[j], CallConstraints(call))
            /\ Names(ManifestPart(call)) \cap OverrideNames(call) = {}

\* C9: a strategy's installer input ends with the strategy's constraints,
\* verbatim and in order, after the manifest-derived lines, whether or not a
\* constraint's package is overridden, banned by a fired rule or still
\* present among the manifest-derived lines.
C9_ConstraintsAppendedLast ==
    \A i \in DOMAIN installer_calls :
        LET call == installer_calls[i]
        IN  /\ Len(InputLines(call)) >= Len(CallConstraints(call))
            /\ ConstraintPart(call) = CallConstraints(call)
            /\ \A j \in DOMAIN ManifestPart(call) :
                   Count(ManifestPart(call)[j], Flatten(SolveAgent.input_manifest)) > 0

\* The fallback pins tensorflow==2.10 and numpy while the manifest's torch
\* fires the rule that bans tensorflow and the manifest's numpy is kept.
C9_Witness ==
    \E i \in DOMAIN installer_calls :
        /\ installer_calls[i].strategy = "dictator_mode"
        /\ CallConstraints(installer_calls[i]) = <<R_tensorflow, R_numpy>>
        /\ N_tensorflow \in BanUnion(Flatten(SolveAgent.input_manifest), FileMatrix)
        /\ Count(R_numpy, ManifestPart(installer_calls[i])) > 0
        /\ ConstraintPart(installer_calls[i]) = <<R_tensorflow, R_numpy>>

\* C10: a strategy's installer input keeps every manifest requirement that
\* is neither overridden nor banned by a fired rule, as often as it is
\* declared and in manifest order, and repeats none: requirements of one
\* package name are never merged.
C10_NoDeduplication ==
    \A i \in DOMAIN installer_calls :
        LET call   == installer_calls[i]
            all    == Flatten(SolveAgent.input_manifest)
            pool   == Without(all, OverrideNames(call))
            banned == BanUnion(pool, FileMatrix)
            kept   == Without(pool, banned)
        IN  /\ Without(Without(ManifestPart(call), OverrideNames(call)), banned) = kept
            /\ \A j \in DOMAIN ManifestPart(call) :
                   Count(ManifestPart(call)[j], ManifestPart(call))
                       <= Count(ManifestPart(call)[j], all)

\* Scenario A's manifest under a non-empty conflict matrix: both xformers
\* pins and numpy reach the installer.
C10_Witness ==
    \E i \in DOMAIN installer_calls :
        /\ FileMatrix # <<>>
        /\ Flatten(SolveAgent.input_manifest) = <<R_xformers20, R_xformers23, R_numpy>>
        /\ installer_calls[i].strategy = "naive_merge"
        /\ InputLines(installer_calls[i]) = <<R_xformers20, R_xformers23, R_numpy>>

\* -------------------------------------------- claim vocabulary: the output

\* A line has been printed; the positions at which it was.
Printed(line) == \E i \in DOMAIN output : output[i] = line
Positions(line) == {i \in DOMAIN output : output[i] = line}

\* The process has ended, through sys.exit or through an uncaught exception.
Ended == pc \in {"exited", "crashed"}

\* C11: when the process has ended, whether through finalize or through a
\* fault inside a step, the session status is 'success' or 'failed' and
\* telemetry has been attempted exactly once.
C11_TerminalStatusAndTelemetryOnce ==
    Ended =>
        /\ SolveAgent.status \in {"success", "failed"}
        /\ Len(telemetry) = 1

\* C12: a failed telemetry upload is swallowed by Telemetry.send: nothing
\* escapes it, the session's status, trials and manifest are those handed to
\* it, a successful session still goes on to the recipe export, and the exit
\* code is the one decided by status and export alone, as after a successful
\* upload.
C12_UploadFailureSwallowed ==
    \A i \in DOMAIN telemetry :
        /\ exit_code = IF FinalizeAgent.status = "success" /\ RecipeExported THEN 0 ELSE 1
        /\ telemetry[i].outcome = "failed" =>
              /\ Printed(P_upload_failed)
              /\ ~Printed("URLError")
              /\ FinalizeAgent.status = telemetry[i].data.final_status
              /\ FinalizeAgent.trials = telemetry[i].data.trials
              /\ FinalizeAgent.input_manifest = telemetry[i].data.input_manifest
              /\ FinalizeAgent.status = "success" => Printed(P_freezing)
              /\ (FinalizeAgent.status = "success" /\ pc = "exited") => RecipeExported

\* A successful session whose upload failed: the recipe is exported and the
\* process exits 0.
C12_Witness ==
    /\ Len(telemetry) = 1
    /\ telemetry[1].outcome = "failed"
    /\ FinalizeAgent.status = "success"
    /\ RecipeExported
    /\ exit_code = 0

\* C14: the phases are printed in the order scan, strategy attempts, recipe
\* export, telemetry report: the export's "Saved to" line precedes the
\* telemetry's "Uploading" line.
C14_ExportBeforeTelemetry ==
    /\ \A i \in Positions(P_scanning), j \in Positions(P_naive) : i < j
    /\ \A i \in Positions(P_naive), j \in Positions(P_dictator) : i < j
    /\ \A i \in Positions(P_naive) \cup Positions(P_dictator),
          j \in Positions(P_freezing) \cup Positions(P_uploading) : i < j
    /\ \A i \in Positions(P_saved), j \in Positions(P_uploading) : i < j

\* The strategies solve has to attempt before it may give up, and those that
\* have a recorded trial.
EnabledStrategies ==
    {"naive_merge"} \cup (IF DictatorEnabledInFile THEN {"dictator_mode"} ELSE {})
AttemptedStrategies == {SolveAgent.trials[i].strategy : i \in DOMAIN SolveAgent.trials}

\* C20: the status leaves 'pending' only in a step of solve, to 'success' or
\* 'failed', and never changes afterwards; it is 'success' exactly when the
\* last recorded trial succeeded, and 'failed' exactly when every recorded
\* trial failed and every enabled strategy has a recorded trial.
C20_StatusLifecycle ==
    /\ [](LET trials == SolveAgent.trials
          IN  /\ SolveAgent.status \in {"pending", "success", "failed"}
              /\ (SolveAgent.status = "success") <=>
                     (trials # <<>> /\ trials[Len(trials)].success)
              /\ (SolveAgent.status = "failed") <=>
                     /\ \A i \in DOMAIN trials : ~trials[i].success
                     /\ EnabledStrategies \subseteq AttemptedStrategies)
    /\ [][/\ SolveAgent.status # "pending" => SolveAgent'.status = SolveAgent.status
          /\ SolveAgent'.status # SolveAgent.status => pc \in {"solve", "dictator"}]_vars

\* The session has failed with both strategies tried, and telemetry and the
\* exit have followed.
C20_Witness ==
    /\ Exited
    /\ telemetry # <<>>
    /\ SolveAgent.status = "failed"
    /\ Len(SolveAgent.trials) = 2
    /\ telemetry[1].data.final_status = "failed"

\* C13: with a knowledge-base file that is absent, not JSON, not an object,
\* or an object with a section of the wrong type, the agent's node_rules,
\* strategies and conflict_matrix are all empty, no AttributeError or
\* TypeError raised on the knowledge base ends the process, and a process
\* that has ended has started the default strategy.
C13_MalformedKnowledgeBase ==
    /\ \A a \in DOMAIN agents :
          /\ agents[a].kb.node_rules = <<>>
          /\ agents[a].kb.strategies = <<>>
          /\ agents[a].kb.conflict_matrix = <<>>
          /\ agents[a].kb.mistyped = {}
    /\ ~Printed("AttributeError")
    /\ ~Printed("TypeError")
    /\ Ended => Printed(P_naive)

\* ---------------------------------------------- claim vocabulary: the scan

\* scan_environment has returned.
Scanned == pc # "scan"

\* The immediate subdirectories of the root; the directories that are not
\* hidden and not below a hidden directory.
Immediate(e) == Len(e.path) = 1
Visible(e) == \A k \in DOMAIN e.path : ~startswith(e.path[k], ".")

\* The manifest a scan of some directories alone produces.
ManifestOf(walk) == walk_loop(walk, 1, ScanAgent.kb.node_rules, <<>>)

\* A line is a comment when its first non-blank character is '#', and a
\* requirement when it is neither blank nor a comment.
IsComment(line) == startswith(lstrip(line), "#")
IsRequirement(line) == strip(line) # <<>> /\ ~IsComment(line)

\* A directory has injected requirements, or a declaration file among those
\* read for it that holds a requirement.
HasDeclarations(e) ==
    LET rule == Get(ScanAgent.kb.node_rules, e.name, <<>>)
        target_files == {REQUIREMENTS_TXT} \cup
            {Get(rule, "extra_files", <<>>)[k] : k \in DOMAIN Get(rule, "extra_files", <<>>)}
    IN  \/ Get(rule, "inject", <<>>) # <<>>
        \/ \E f \in target_files \cap DOMAIN e.files :
              /\ e.files[f].readable
              /\ \E k \in DOMAIN e.files[f].lines : IsRequirement(e.files[f].lines[k])

\* C15: after the scan the manifest is the one the immediate subdirectories
\* of the root produce: the root and directories nested deeper add no entry
\* and replace none.
C15_ImmediateSubdirectoriesOnly ==
    Scanned => ScanAgent.input_manifest = ManifestOf(SelectSeq(fs.walk, Immediate))

\* C16: after the scan no manifest key begins with '.', and the manifest is
\* the one the directories outside every hidden directory produce.
C16_HiddenDirectoriesSkipped ==
    Scanned =>
        /\ \A i \in DOMAIN ScanAgent.input_manifest :
               ~startswith(ScanAgent.input_manifest[i].key, ".")
        /\ ScanAgent.input_manifest = ManifestOf(SelectSeq(fs.walk, Visible))

\* C17: after the scan every manifest entry holds a non-empty sequence, and
\* every key is the name of a directory that has injected requirements or a
\* declaration file with a requirement in it.
C17_NoEmptyEntries ==
    Scanned =>
        \A i \in DOMAIN ScanAgent.input_manifest :
            /\ ScanAgent.input_manifest[i].value # <<>>
            /\ \E k \in DOMAIN fs.walk :
                  /\ fs.walk[k].name = ScanAgent.input_manifest[i].key
                  /\ HasDeclarations(fs.walk[k])

\* --------------------------------------------- claim vocabulary: the names

\* The canonical form of a package name: trimmed, lower-cased, '-' written '_'.
CanonicalForm(name) ==
    LET t == strip(name)
    IN  [i \in DOMAIN t |-> IF lower_char(t[i]) = "-" THEN "_" ELSE lower_char(t[i])]
CanonicalSet(names) == {CanonicalForm(n) : n \in names}

\* The rules whose trigger entries match a requirement of reqs by canonical
\* name, and the canonical names their ban entries stand for.
CanonicalFired(reqs, matrix) ==
    {i \in DOMAIN matrix :
        /\ "trigger" \in DOMAIN matrix[i]
        /\ CanonicalSet(matrix[i].trigger) \cap Names(reqs) # {}}
CanonicalBans(reqs, matrix) ==
    UNION {IF "ban" \in DOMAIN matrix[i] THEN CanonicalSet(matrix[i].ban) ELSE {} :
              i \in CanonicalFired(reqs, matrix)}

\* C18: trigger, ban and override entries match by canonical name: the
\* manifest-derived lines of an installer input are the manifest's
\* requirements without those whose canonical name is that of an override
\* entry, and without those whose canonical name is that of a ban entry of
\* a rule one of whose trigger entries has the canonical name of a
\* remaining requirement.
C18_CanonicalMatching ==
    \A i \in DOMAIN installer_calls :
        LET call      == installer_calls[i]
            all       == Flatten(SolveAgent.input_manifest)
            overrides == CanonicalSet({CallOverrides(call)[k] : k \in DOMAIN CallOverrides(call)})
            pool      == Without(all, overrides)
        IN  ManifestPart(call) = Without(pool, CanonicalBans(pool, FileMatrix))

\* C19: for a raw line made of a name, optional whitespace and a version
\* operator, extras bracket or ';' marker, get_package_name returns the
\* canonical form of the name.
C19_PackageNameOfRawLine ==
    \A n \in ParserNames, g \in ParserGaps, x \in ParserSuffixes :
        (req_string = n \o g \o x /\ pkg_name # <<>>) =>
            pkg_name[1] = CanonicalForm(n)

\* C21: the trials are the completed installer runs, one for one and in
\* order, each with success exactly when the run's exit status was 0; no
\* strategy name occurs twice and there are at most 2 runs; and a step only
\* ever appends to the trials.
C21_OneTrialPerInstallerRun ==
    /\ [](LET trials == SolveAgent.trials
          IN  /\ Len(trials) = Len(installer_calls)
              /\ Len(installer_calls) <= 2
              /\ \A i \in DOMAIN trials :
                    /\ i \in DOMAIN installer_calls
                    /\ trials[i].strategy = installer_calls[i].strategy
                    /\ trials[i].success <=> (installer_calls[i].returncode = 0)
              /\ \A i, j \in DOMAIN installer_calls :
                    installer_calls[i].strategy = installer_calls[j].strategy => i = j)
    /\ [][/\ Len(SolveAgent'.trials) >= Len(SolveAgent.trials)
          /\ SubSeq(SolveAgent'.trials, 1, Len(SolveAgent.trials)) = SolveAgent.trials
          /\ Len(SolveAgent'.trials) <= Len(SolveAgent.trials) + 1]_vars

\* The manifest the scan of the component root produces.
ScannedManifest == scan_environment(fs, KnowledgeBase(kbfile).node_rules, <<>>)

\* C22: from the end of the scan on, through every strategy attempt and
\* finalize, the manifest is the one the scan produced (keys, key order and
\* sequences), the knowledge base is as loaded, and every installer input,
\* the fallback's included, is built from that whole manifest.
C22_ManifestFrozenAfterScan ==
    Scanned =>
        /\ SolveAgent.input_manifest = ScannedManifest
        /\ SolveAgent.kb = KnowledgeBase(kbfile)
        /\ \A i \in DOMAIN installer_calls :
              installer_calls[i].input =
                  join_lines(build_final_reqs(ScannedManifest, FileMatrix,
                                              CallConstraints(installer_calls[i]),
                                              CallOverrides(installer_calls[i])))

\* The fallback has run with an override, a fired rule and a constraint, so
\* that its input is not the manifest's requirements, and the session has
\* ended with the manifest as scanned.
C22_Witness ==
    /\ Exited
    /\ Len(installer_calls) = 2
    /\ CallOverrides(installer_calls[2]) # <<>>
    /\ CallConstraints(installer_calls[2]) # <<>>
    /\ FiredRules(Flatten(ScannedManifest), FileMatrix) # {}
    /\ installer_calls[2].input # installer_calls[1].input
    /\ Len(SolveAgent.input_manifest) = 2

\* --------------------------------- claim vocabulary: a component's sequence

\* The rule the knowledge base names for a directory, its injected
\* requirements, and the files read for it: the standard declaration file,
\* then the rule's extra files as listed.
RuleOf(e) == Get(ScanAgent.kb.node_rules, e.name, <<>>)
Injected(e) == Get(RuleOf(e), "inject", <<>>)
DeclarationFiles(e) == <<REQUIREMENTS_TXT>> \o Get(RuleOf(e), "extra_files", <<>>)

\* What one file contributes as the scan reads it: nothing when the
\* directory does not have it or it cannot be read.
FileLines(e, f) ==
    IF f \in DOMAIN e.files /\ e.files[f].readable
    THEN read_deps(e.files[f].lines, 1, <<>>)
    ELSE <<>>

\* What one file holds as requirements: its lines that are neither blank
\* nor comments, trimmed, in file order.
RequirementLines(e, f) ==
    IF f \in DOMAIN e.files /\ e.files[f].readable
    THEN LET kept == SelectSeq(e.files[f].lines, IsRequirement)
         IN  [k \in DOMAIN kept |-> strip(kept[k])]
    ELSE <<>>

\* The contributions of a list of files, one after the other, as the scan
\* reads them and as requirements.
RECURSIVE AllFileLines(_, _)
AllFileLines(e, names) ==
    IF names = <<>> THEN <<>>
    ELSE FileLines(e, names[1]) \o AllFileLines(e, Tail(names))
RECURSIVE AllRequirementLines(_, _)
AllRequirementLines(e, names) ==
    IF names = <<>> THEN <<>>
    ELSE RequirementLines(e, names[1]) \o AllRequirementLines(e, Tail(names))

\* The directory a manifest key stands for: the last one walked that has
\* the key as its name and anything to record.
Recorded(e) == Injected(e) \o AllFileLines(e, DeclarationFiles(e))
SourceOf(key) ==
    LET candidates == {k \in DOMAIN fs.walk :
                          fs.walk[k].name = key /\ Recorded(fs.walk[k]) # <<>>}
    IN  fs.walk[CHOOSE k \in candidates : \A j \in candidates : j <= k]

\* C23: every manifest entry is its directory's injected requirements, then
\* the lines of the standard declaration file, then those of each listed
\* extra file the directory has, in listed order (only the standard file's
\* lines when no rule names the directory); and a directory with a
\* non-empty inject list has an entry whatever files it has.
C23_InjectThenFilesInOrder ==
    Scanned =>
        /\ \A i \in DOMAIN ScanAgent.input_manifest :
              LET e == SourceOf(ScanAgent.input_manifest[i].key)
              IN  /\ ScanAgent.input_manifest[i].value = Recorded(e)
                  /\ RuleOf(e) = <<>> =>
                        ScanAgent.input_manifest[i].value = FileLines(e, REQUIREMENTS_TXT)
        /\ \A k \in DOMAIN fs.walk :
              (Injected(fs.walk[k]) # <<>> /\ ~startswith(fs.walk[k].name, ".")) =>
                  \E i \in DOMAIN ScanAgent.input_manifest :
                      ScanAgent.input_manifest[i].key = fs.walk[k].name

\* A scan under rules that inject into a component without files and that
\* list a component's extra files in an order of their own.
C23_Witness ==
    /\ Scanned
    /\ \E i, j \in DOMAIN ScanAgent.input_manifest :
          /\ ScanAgent.input_manifest[i].key = NodeE
          /\ ScanAgent.input_manifest[i].value = <<R_torch>>
          /\ ScanAgent.input_manifest[j].key = NodeU
          /\ ScanAgent.input_manifest[j].value = <<R_numpy, R_tensorflow, R_xformers20>>

\* C24: no requirement read from a declaration file is an empty string or
\* a comment: every manifest entry is its directory's injected requirements
\* followed by the requirements of its declaration files, that is their
\* lines with the blank and whitespace-only lines and the lines whose first
\* non-blank character is '#' (comments after leading whitespace included)
\* dropped, and every other line trimmed, in file order.
C24_BlankAndCommentLinesDropped ==
    Scanned =>
        \A i \in DOMAIN ScanAgent.input_manifest :
            LET e == SourceOf(ScanAgent.input_manifest[i].key)
            IN  ScanAgent.input_manifest[i].value =
                    Injected(e) \o AllRequirementLines(e, DeclarationFiles(e))

\* The directories of a walk with the files that cannot be read taken away.
WithoutUnreadable(walk) ==
    [k \in DOMAIN walk |->
        [walk[k] EXCEPT !.files =
            [f \in {g \in DOMAIN @ : @[g].readable} |-> @[f]]]]

\* C25: the scan always returns; without a component root the manifest is
\* empty, and otherwise it is the manifest of the same tree without the
\* files that cannot be read: such a file adds nothing, and everything else
\* is recorded as if the file were not there.
C25_ScanNeverFatal ==
    Scanned =>
        /\ pc # "crashed"
        /\ ~fs.exists => ScanAgent.input_manifest = <<>>
        /\ fs.exists => ScanAgent.input_manifest = ManifestOf(WithoutUnreadable(fs.walk))

\* A component whose standard declaration file cannot be read is recorded
\* with its injected requirement and its extra files, next to another
\* component.
C25_Witness ==
    /\ Scanned
    /\ \E k \in DOMAIN fs.walk : fs.walk[k] = D_NodeU
    /\ \E i, j \in DOMAIN ScanAgent.input_manifest :
          /\ ScanAgent.input_manifest[i].key = NodeU
          /\ ScanAgent.input_manifest[i].value = <<R_numpy, R_tensorflow, R_xformers20>>
          /\ ScanAgent.input_manifest[j].key = NodeB

\* C26: strategy attempts are not isolated.  Nothing is rolled back or
\* cleaned up between a failed attempt and the next one: the environment an
\* installer run sees is exactly what the run before it saw together with
\* what that run installed, whether or not it failed, and the environment of
\* the process is what the last run left.
C26_NoRollbackBetweenAttempts ==
    /\ \A i \in DOMAIN installer_calls :
          installer_calls[i].seen =
             IF i = 1 THEN {}
             ELSE installer_calls[i - 1].seen \cup installer_calls[i - 1].installed
    /\ environment =
          IF installer_calls = <<>> THEN {}
          ELSE installer_calls[Len(installer_calls)].seen
                  \cup installer_calls[Len(installer_calls)].installed

\* The default attempt failed part way, leaving an installed requirement,
\* and the fallback's installer run has started from that environment.
C26_Witness ==
    /\ Len(installer_calls) = 2
    /\ installer_calls[1].strategy = "naive_merge"
    /\ installer_calls[1].returncode # 0
    /\ installer_calls[1].installed # {}
    /\ installer_calls[2].strategy = "dictator_mode"
    /\ installer_calls[2].seen = installer_calls[1].installed

\* The reorderings of a matrix, and the requirements a matrix leaves.
Reorderings(n) == {p \in [1..n -> 1..n] : \A i, j \in 1..n : i # j => p[i] # p[j]}
Permuted(matrix, p) == [k \in DOMAIN matrix |-> matrix[p[k]]]
Survivors(requirements, matrix) ==
    LET final_reqs == apply_conflict_matrix(requirements, matrix)
    IN  {final_reqs[k] : k \in DOMAIN final_reqs}
SurvivorsOfEachRule ==
    LET alone == [k \in DOMAIN arb_matrix |->
                     Survivors(arb_requirements, <<arb_matrix[k]>>)]
    IN  {r \in {arb_requirements[i] : i \in DOMAIN arb_requirements} :
            \A k \in DOMAIN arb_matrix : r \in alone[k]}
SurvivesEachRule(r) == r \in SurvivorsOfEachRule

\* C27: the result of apply_conflict_matrix does not depend on the order of
\* the rules.  Every permutation of the matrix yields the same purged list,
\* and each rule acts as it would act alone on the original input: a
\* requirement is purged exactly when some rule, applied by itself to the
\* input, purges it (no cascading, bans accumulate as a union), so a rule
\* whose only trigger is banned by another fired rule still fires.
C27_RuleOrderIrrelevant ==
    arb_passes # <<>> =>
        /\ \A p \in Reorderings(Len(arb_matrix)) :
              apply_conflict_matrix(arb_requirements, Permuted(arb_matrix, p))
                 = arb_passes[1]
        /\ arb_passes[1] = SelectSeq(arb_requirements, SurvivesEachRule)

\* torch bans tensorflow, tensorflow bans numpy, and all three are declared:
\* the second rule has fired although its only trigger is banned by the first.
C27_Witness ==
    /\ arb_matrix = <<Rule_torch_bans_tf, Rule_tf_bans_numpy>>
    /\ arb_requirements = <<R_torch, R_tensorflow, R_numpy>>
    /\ arb_passes # <<>>
    /\ arb_passes[1] = <<R_torch>>

\* C28: within a strategy, rule firing is decided only by the manifest
\* requirements that survive override removal.  The manifest-derived lines
\* of an installer input are those survivors without the packages banned by
\* the rules that the survivors themselves trigger: a package removed by an
\* override fires no rule, and neither does a package that only the
\* strategy's constraints name.
C28_FiringBySurvivorsOnly ==
    \A i \in DOMAIN installer_calls :
        LET call      == installer_calls[i]
            survivors == Without(Flatten(SolveAgent.input_manifest), OverrideNames(call))
        IN  ManifestPart(call) =
               Without(survivors, BanUnion(survivors, FileMatrix))

\* numpy in the manifest fires the rule that bans torch in the default
\* attempt; the fallback overrides numpy and pins it in its constraints, and
\* torch reaches the installer.
C28_Witness ==
    /\ Len(installer_calls) = 2
    /\ \E k \in DOMAIN FileMatrix : FileMatrix[k] = Rule_numpy_bans_torch
    /\ Count(R_numpy, Flatten(SolveAgent.input_manifest)) > 0
    /\ Count(R_torch, Flatten(SolveAgent.input_manifest)) > 0
    /\ Count(R_torch, InputLines(installer_calls[1])) = 0
    /\ installer_calls[2].strategy = "dictator_mode"
    /\ OverrideNames(installer_calls[2]) = {N_numpy}
    /\ CallConstraints(installer_calls[2]) = <<R_numpy126>>
    /\ Count(R_torch, ManifestPart(installer_calls[2])) > 0

\* ------------------------------------- claim vocabulary: the v1 resolver

\* The requirements files below the component root, and the path of the one
\* in a directory.
RequirementsPath(d) == walk_root(d.path) \o <<"/">> \o REQUIREMENTS_TXT
Discovered ==
    IF fs.exists
    THEN {RequirementsPath(fs.walk[k]) :
             k \in {j \in DOMAIN fs.walk : REQUIREMENTS_TXT \in DOMAIN fs.walk[j].files}}
    ELSE {}
Returned == pc = "v1_returned"
StatusCount(status) == Cardinality({i \in DOMAIN results : results[i].status = status})

\* C29: install_and_record attempts every discovered requirements file
\* exactly once, in sorted path order, and goes on after a failed or erroring
\* install: it returns one entry per file, in that order, whose status is
\* 'success', 'failed' or 'error' and never 'pending'; success_count is the
\* number of 'success' entries and success_count + fail_count the number of
\* files.
C29_EveryFileOnceInSortedOrder ==
    Returned =>
        /\ {popen_calls[i] : i \in DOMAIN popen_calls} = Discovered
        /\ Len(popen_calls) = Cardinality(Discovered)
        /\ \A i, j \in DOMAIN popen_calls : i < j => str_lt(popen_calls[i], popen_calls[j])
        /\ Len(results) = Len(popen_calls)
        /\ \A i \in DOMAIN results :
              /\ results[i].file_path = popen_calls[i]
              /\ results[i].status \in {"success", "failed", "error"}
        /\ success_count = StatusCount("success")
        /\ success_count + fail_count = Cardinality(Discovered)

\* Three files met by the walk in an order that is not the sorted one; the
\* first install fails, the second raises and the third succeeds.
C29_Witness ==
    /\ Returned
    /\ fs.exists
    /\ Len(fs.walk) = 4
    /\ fs.walk[2] = D_NodeB /\ fs.walk[3] = D_NodeA /\ fs.walk[4] = D_hidden
    /\ Len(results) = 3
    /\ results[1].node_name = DotGit /\ results[1].status = "failed"
    /\ results[2].node_name = NodeA /\ results[2].status = "error"
    /\ results[3].node_name = NodeB /\ results[3].status = "success"
    /\ success_count = 1 /\ fail_count = 2

\* C30: a query to the local model server ends with at most one model pull
\* and at most one retry after an HTTP 404: each client sends at most two
\* generate requests for a query and then returns a result or an error
\* value, even if the server keeps answering 404 after a successful pull.
C30_AtMostOnePullAndOneRetry ==
    \A k \in DOMAIN queries :
        /\ queries[k].requests <= 2
        /\ queries[k].pulls <= 1
        /\ ~queries[k].raised

====
